---- MODULE Spec2Model ----
(***************************************************************************)
(* Transform / Load stages of the social-media ETL pipeline (src/etl.py)   *)
(* and the text utilities of src/utils.py.                                 *)
(*                                                                         *)
(* A Python str is a sequence of code points; a code point is written as   *)
(* a one-character TLA+ string when it is ASCII and as "Uxxxx" otherwise   *)
(* ("U2014" is the em dash, "U1F60A" a smiling face).                      *)
(***************************************************************************)
EXTENDS Integers, Sequences, FiniteSets, TLC

VARIABLES
    stats,        \* Transformer.stats
    stats0,       \* Transformer.stats on entry to the last transform call
    posts,        \* argument of the last transform call
    transformed,  \* list returned by the last transform call
    raised,       \* the last transform call ended by an exception
    now,          \* datetime.now() clock, one tick per transform call
    handed,       \* number of raw records handed to transform so far
    fn,           \* pure function under test
    arg,          \* its argument
    ret,          \* its result
    pc,           \* "call" before the function is applied, "done" after
    rows,         \* the rows of table posts of the Database
    rows0,        \* the rows on entry to the last call that wrote to the table
    loader_stats, \* Loader.stats
    assigns_id,   \* the engine fills the id column of a new row
    source,       \* posts_generator of run_streaming: the records it yields
    taken,        \* number of records run_streaming took from the source
    batch_size,   \* config['batch_size']
    buffer,       \* the list batch of run_streaming
    pending,      \* transformed records of the batch that are not yet yielded
    yielded,      \* the records run_streaming yielded so far
    fed,          \* the raw records run_streaming handed to transform so far
    to_loader,    \* the records run_streaming handed to loader.load so far
    gen           \* position of the generator run_streaming

vars ==
    <<stats, stats0, posts, transformed, raised, now, handed, fn, arg, ret, pc,
      rows, rows0, loader_stats, assigns_id,
      source, taken, batch_size, buffer, pending, yielded, fed, to_loader, gen>>

(***************************************************************************)
(* Bounds of the model.                                                    *)
(***************************************************************************)
\* batch_size = self.config.get('batch_size', 100)
DefaultBatchSize == 100

\* The largest batch_size a streaming run is configured with.
MaxBatchSize == 2

\* Posts handed to the Loader and the Database in one run.
MaxPosts == 2

\* Chunks concatenated into one input text of a pure function.
MaxChunks == 3
\* Raw records handed to the transform over a run.
MaxRecords == 3
\* Calls of transform in a run.
MaxCalls == 2
\* Largest comment count given to the engagement classifier.
MaxComments == 2
\* Largest max_attempts given to the retry decorators.
MaxAttempts == 3

(***************************************************************************)
(* Python values: every value carries a type tag t, a str payload s and an *)
(* int payload n.  "absent" marks a key a mapping does not have, "list"    *)
(* is a non-empty list (an unhashable value of a foreign type).            *)
(***************************************************************************)
StrV(s) == [t |-> "str", s |-> s, n |-> 0]
IntV(n) == [t |-> "int", s |-> <<>>, n |-> n]
BoolV(b) == [t |-> "bool", s |-> <<>>, n |-> IF b THEN 1 ELSE 0]
None == [t |-> "none", s |-> <<>>, n |-> 0]
Absent == [t |-> "absent", s |-> <<>>, n |-> 0]
List == [t |-> "list", s |-> <<>>, n |-> 0]

\* Python truth value of v (bool(v)).
Truthy(v) ==
    CASE v.t = "str" -> v.s # <<>>
      [] v.t = "int" -> v.n # 0
      [] v.t = "bool" -> v.n # 0
      [] v.t = "list" -> TRUE
      [] v.t = "datetime" -> TRUE
      [] OTHER -> FALSE

\* Outcome of a call: a returned value, or an exception class raised.
Ok(v) == [exc |-> "none", v |-> v]
Raise(e) == [exc |-> e, v |-> None]

(***************************************************************************)
(* Python str methods on sequences of code points.                         *)
(***************************************************************************)
\* str.isspace() of one code point.
IsSpace(c) == c \in {" ", "\t", "\n", "U00A0"}

\* \w of the re module on a str pattern, for the code points of the model:
\* letters (U+4E2D, U+00C2 and U+00E2 are letters too), digits, underscore.
IsWord(c) ==
    c \in {"a", "b", "c", "d", "e", "f", "g", "h", "i", "j", "k", "l", "m", "n", "o",
           "p", "q", "r", "s", "t", "u", "v", "w", "x", "y", "z", "A", "B", "F", "L", "N",
           "T", "0", "1", "2", "3", "4", "5", "6", "7", "8", "9", "_", "U4E2D",
           "U00E2", "U00C2"}

\* str.lower() of one code point.
LowerChar(c) ==
    CASE c = "L" -> "l"
      [] c = "A" -> "a"
      [] c = "B" -> "b"
      [] c = "F" -> "f"
      [] c = "N" -> "n"
      [] c = "T" -> "t"
      [] c = "U00C2" -> "U00E2"
      [] OTHER -> c

str_lower(s) == [i \in 1..Len(s) |-> LowerChar(s[i])]

\* p occurs in s at position i.
MatchAt(s, i, p) ==
    /\ i + Len(p) - 1 <= Len(s)
    /\ \A k \in 1..Len(p) : s[i + k - 1] = p[k]

RECURSIVE ReplaceFrom(_, _, _, _)
ReplaceFrom(s, i, old, new) ==
    IF i > Len(s) THEN <<>>
    ELSE IF MatchAt(s, i, old)
         THEN new \o ReplaceFrom(s, i + Len(old), old, new)
         ELSE <<s[i]>> \o ReplaceFrom(s, i + 1, old, new)

\* s.replace(old, new) for a non-empty old: leftmost non-overlapping matches.
str_replace(s, old, new) == ReplaceFrom(s, 1, old, new)

RECURSIVE SplitFrom(_, _, _)
SplitFrom(s, i, cur) ==
    IF i > Len(s) THEN (IF cur = <<>> THEN <<>> ELSE <<cur>>)
    ELSE IF IsSpace(s[i])
         THEN (IF cur = <<>> THEN <<>> ELSE <<cur>>) \o SplitFrom(s, i + 1, <<>>)
         ELSE SplitFrom(s, i + 1, Append(cur, s[i]))

\* s.split(): the maximal runs of non-whitespace code points.
str_split(s) == SplitFrom(s, 1, <<>>)

RECURSIVE str_join(_, _)
\* sep.join(parts)
str_join(sep, parts) ==
    IF parts = <<>> THEN <<>>
    ELSE IF Len(parts) = 1 THEN parts[1]
    ELSE parts[1] \o sep \o str_join(sep, Tail(parts))

RECURSIVE LStrip(_)
LStrip(s) == IF s # <<>> /\ IsSpace(s[1]) THEN LStrip(Tail(s)) ELSE s

RECURSIVE RStrip(_)
RStrip(s) ==
    IF s # <<>> /\ IsSpace(s[Len(s)]) THEN RStrip(SubSeq(s, 1, Len(s) - 1)) ELSE s

\* s.strip()
str_strip(s) == RStrip(LStrip(s))

\* ' '.join(s.split())
CollapseWhitespace(s) == str_join(<<" ">>, str_split(s))

RECURSIVE ReplaceAll(_, _)
\* for old, new in table: text = text.replace(old, new), in the table's order.
ReplaceAll(s, table) ==
    IF table = <<>> THEN s
    ELSE ReplaceAll(str_replace(s, table[1][1], table[1][2]), Tail(table))

(***************************************************************************)
(* Transformer._clean_text                                                 *)
(***************************************************************************)
\* The HTML entities decoded, in the order of the replace calls.
HtmlEntities ==
    << <<(<<"&", "a", "m", "p", ";">>), <<"&">>>>,
       <<(<<"&", "l", "t", ";">>), <<"<">>>>,
       <<(<<"&", "g", "t", ";">>), <<">">>>>,
       <<(<<"&", "q", "u", "o", "t", ";">>), <<"\"">>>>,
       <<(<<"&", "#", "3", "9", ";">>), <<"'">>>>,
       <<(<<"&", "#", "x", "2", "0", "0", "B", ";">>), <<>>>> >>

\* The replacements dict of _clean_text, in insertion order.
replacements ==
    << <<(<<"U2018">>), <<"'">>>>, <<(<<"U2019">>), <<"'">>>>,
       <<(<<"U201C">>), <<"\"">>>>, <<(<<"U201D">>), <<"\"">>>>,
       <<(<<"U2013">>), <<"-">>>>, <<(<<"U2014">>), <<"-", "-">>>>,
       <<(<<"U200B">>), <<>>>>, <<(<<"UFEFF">>), <<>>>>,
       <<(<<"U00A0">>), <<" ">>>> >>

\* The body of _clean_text on a non-empty str.
CleanTextStr(s) ==
    str_strip(CollapseWhitespace(ReplaceAll(ReplaceAll(s, HtmlEntities), replacements)))

\* _clean_text(text): "" for a falsy value; a truthy non-str has no .replace.
_clean_text(text) ==
    IF ~Truthy(text) THEN Ok(StrV(<<>>))
    ELSE IF text.t # "str" THEN Raise("AttributeError")
    ELSE Ok(StrV(CleanTextStr(text.s)))

(***************************************************************************)
(* TextProcessor.clean (src/utils.py)                                      *)
(***************************************************************************)
\* TextProcessor.CHAR_REPLACEMENTS, in insertion order.
CHAR_REPLACEMENTS ==
    << <<(<<"U2122">>), <<"U00E2", "U201E", "U00A2">>>>,
       <<(<<"U00A9">>), <<"U00C2", "U00A9">>>>,
       <<(<<"U00AE">>), <<"U00C2", "U00AE">>>>,
       <<(<<"U2018">>), <<"'">>>>, <<(<<"U2019">>), <<"'">>>>,
       <<(<<"U201C">>), <<"\"">>>>, <<(<<"U201D">>), <<"\"">>>>,
       <<(<<"U2013">>), <<"-">>>>, <<(<<"U2014">>), <<"-", "-">>>>,
       <<(<<"U200B">>), <<>>>>, <<(<<"UFEFF">>), <<>>>> >>

TextProcessor_clean(text) ==
    IF ~Truthy(text) THEN Ok(StrV(<<>>))
    ELSE IF text.t # "str" THEN Raise("AttributeError")
    ELSE Ok(StrV(str_strip(CollapseWhitespace(ReplaceAll(text.s, CHAR_REPLACEMENTS)))))

(***************************************************************************)
(* TextProcessor.extract_hashtags / remove_hashtags (src/utils.py)         *)
(***************************************************************************)
RECURSIVE WordRunEnd(_, _)
\* Last position of the maximal run of \w code points of s starting at i
\* (i - 1 when s[i] is no \w).
WordRunEnd(s, i) ==
    IF i <= Len(s) /\ IsWord(s[i]) THEN WordRunEnd(s, i + 1) ELSE i - 1

RECURSIVE SpaceRunEnd(_, _)
\* The same for \s.
SpaceRunEnd(s, i) ==
    IF i <= Len(s) /\ IsSpace(s[i]) THEN SpaceRunEnd(s, i + 1) ELSE i - 1

\* HASHTAG_PATTERN, '#(\w+)', matches at i.
HashtagAt(s, i) == s[i] = "#" /\ WordRunEnd(s, i + 1) >= i + 1

RECURSIVE FindHashtags(_, _)
\* HASHTAG_PATTERN.findall(s) from position i: the group of every
\* non-overlapping match, left to right.
FindHashtags(s, i) ==
    IF i > Len(s) THEN <<>>
    ELSE IF HashtagAt(s, i)
         THEN <<SubSeq(s, i + 1, WordRunEnd(s, i + 1))>>
              \o FindHashtags(s, WordRunEnd(s, i + 1) + 1)
         ELSE FindHashtags(s, i + 1)

\* TextProcessor.extract_hashtags(text), a list of str.
extract_hashtags(text) == IF text = <<>> THEN <<>> ELSE FindHashtags(text, 1)

RECURSIVE SubHashtags(_, _)
\* re.sub(r'#\w+\s*', '', s) from position i.
SubHashtags(s, i) ==
    IF i > Len(s) THEN <<>>
    ELSE IF HashtagAt(s, i)
         THEN SubHashtags(s, SpaceRunEnd(s, WordRunEnd(s, i + 1) + 1) + 1)
         ELSE <<s[i]>> \o SubHashtags(s, i + 1)

\* TextProcessor.remove_hashtags(text)
remove_hashtags(text) ==
    IF text = <<>> THEN <<>> ELSE CollapseWhitespace(SubHashtags(text, 1))

(***************************************************************************)
(* Transformer._normalize_hashtags                                         *)
(***************************************************************************)
RECURSIVE SplitOn(_, _, _, _)
\* s.split(sep) for a one-code-point sep: empty fields are kept.
SplitOn(s, sep, i, cur) ==
    IF i > Len(s) THEN <<cur>>
    ELSE IF s[i] = sep THEN <<cur>> \o SplitOn(s, sep, i + 1, <<>>)
    ELSE SplitOn(s, sep, i + 1, Append(cur, s[i]))

\* A bug: only the empty tags are dropped.
NormalizedTagsKeepShort(split) ==
    SelectSeq([i \in 1..Len(split) |-> str_lower(str_strip(split[i]))],
              LAMBDA tag : tag # <<>>)

\* [tag.strip().lower() for tag in split], the tags of length > 1 kept.
NormalizedTags(split) ==
    SelectSeq([i \in 1..Len(split) |-> str_lower(str_strip(split[i]))],
              LAMBDA tag : tag # <<>> /\ Len(tag) > 1)

_normalize_hashtags(hashtags) ==
    IF ~Truthy(hashtags) THEN Ok(StrV(<<>>))
    ELSE IF hashtags.t # "str" THEN Raise("AttributeError")
    ELSE Ok(StrV(str_join(<<",">>, NormalizedTags(SplitOn(hashtags.s, ",", 1, <<>>)))))

(***************************************************************************)
(* Transformer._safe_int                                                   *)
(***************************************************************************)
Digits == {"0", "1", "2", "3", "4", "5", "6", "7", "8", "9"}

DigitVal(c) ==
    CASE c = "0" -> 0 [] c = "1" -> 1 [] c = "2" -> 2 [] c = "3" -> 3
      [] c = "4" -> 4 [] c = "5" -> 5 [] c = "6" -> 6 [] c = "7" -> 7
      [] c = "8" -> 8 [] c = "9" -> 9

DigitChar(d) == <<"0", "1", "2", "3", "4", "5", "6", "7", "8", "9">>[d + 1]

RECURSIVE DigitsVal(_)
DigitsVal(s) ==
    IF s = <<>> THEN 0
    ELSE 10 * DigitsVal(SubSeq(s, 1, Len(s) - 1)) + DigitVal(s[Len(s)])

RECURSIVE NatStr(_)
NatStr(n) == IF n < 10 THEN <<DigitChar(n)>> ELSE NatStr(n \div 10) \o <<DigitChar(n % 10)>>

\* str(value)
py_str(value) ==
    CASE value.t = "str" -> value.s
      [] value.t = "int" -> IF value.n < 0 THEN <<"-">> \o NatStr(-value.n) ELSE NatStr(value.n)
      [] value.t = "bool" -> IF value.n = 1 THEN <<"T", "r", "u", "e">> ELSE <<"F", "a", "l", "s", "e">>
      [] value.t = "none" -> <<"N", "o", "n", "e">>
      [] OTHER -> <<"[", "'", "x", "'", "]">>

AllDigits(s) == \A i \in 1..Len(s) : s[i] \in Digits

\* Position of the first "." of s (Len(s) + 1 if there is none).
RECURSIVE DotAt(_, _)
DotAt(s, i) == IF i > Len(s) \/ s[i] = "." THEN i ELSE DotAt(s, i + 1)

\* int(float(...)) of the unsigned part of a float literal, split at its
\* first ".": inf / infinity / nan in any case, or digits[.digits] | .digits.
\* int() truncates toward zero, so the result is the signed integer part;
\* int(inf) raises OverflowError and int(nan), like float() of an unparsable
\* text, ValueError.  (Exponents and digit-group underscores need code
\* points that the inputs of this model do not contain.)
IntOfMagnitude(neg, low, ipart, fpart) ==
    IF low \in {<<"i", "n", "f">>, <<"i", "n", "f", "i", "n", "i", "t", "y">>}
    THEN Raise("OverflowError")
    ELSE IF low = <<"n", "a", "n">> THEN Raise("ValueError")
    ELSE IF AllDigits(ipart) /\ AllDigits(fpart) /\ Len(ipart) + Len(fpart) > 0
    THEN Ok(IntV(IF neg THEN -DigitsVal(ipart) ELSE DigitsVal(ipart)))
    ELSE Raise("ValueError")

IntOfUnsigned(neg, mag, dot) ==
    IntOfMagnitude(neg, str_lower(mag), SubSeq(mag, 1, dot - 1), SubSeq(mag, dot + 1, Len(mag)))

\* The text stripped of surrounding whitespace: an optional sign, then the
\* unsigned literal.
IntOfStripped(body) ==
    IF body # <<>> /\ body[1] \in {"+", "-"}
    THEN IntOfUnsigned(body[1] = "-", Tail(body), DotAt(Tail(body), 1))
    ELSE IntOfUnsigned(FALSE, body, DotAt(body, 1))

\* int(float(s))
IntOfFloatOfStr(s) == IntOfStripped(str_strip(s))

\* except (ValueError, TypeError) of _safe_int.
SafeIntCatches(exc) == exc \in {"ValueError", "TypeError"}

\* try: return <r> / except (ValueError, TypeError): return 0
SafeIntOutcome(r) ==
    IF r.exc = "none" THEN r
    ELSE IF SafeIntCatches(r.exc) THEN Ok(IntV(0))
    ELSE r

_safe_int(value) ==
    IF value.t = "none" \/ value = StrV(<<>>) THEN Ok(IntV(0))
    ELSE SafeIntOutcome(IntOfFloatOfStr(str_replace(py_str(value), <<",">>, <<>>)))

(***************************************************************************)
(* Transformer._analyze_sentiment                                          *)
(***************************************************************************)
\* Transformer.POSITIVE_WORDS
POSITIVE_WORDS ==
    {<<"l", "o", "v", "e">>, <<"l", "o", "v", "e", "d">>,
     <<"l", "o", "v", "i", "n", "g">>, <<"g", "r", "e", "a", "t">>,
     <<"a", "m", "a", "z", "i", "n", "g">>, <<"a", "w", "e", "s", "o", "m", "e">>,
     <<"e", "x", "c", "e", "l", "l", "e", "n", "t">>, <<"g", "o", "o", "d">>,
     <<"b", "e", "s", "t">>, <<"h", "a", "p", "p", "y">>,
     <<"w", "o", "n", "d", "e", "r", "f", "u", "l">>,
     <<"f", "a", "n", "t", "a", "s", "t", "i", "c">>,
     <<"b", "r", "i", "l", "l", "i", "a", "n", "t">>,
     <<"p", "e", "r", "f", "e", "c", "t">>,
     <<"b", "e", "a", "u", "t", "i", "f", "u", "l">>,
     <<"i", "n", "c", "r", "e", "d", "i", "b", "l", "e">>,
     <<"o", "u", "t", "s", "t", "a", "n", "d", "i", "n", "g">>,
     <<"s", "u", "p", "e", "r", "b">>,
     <<"m", "a", "g", "n", "i", "f", "i", "c", "e", "n", "t">>,
     <<"t", "h", "a", "n", "k">>, <<"t", "h", "a", "n", "k", "s">>,
     <<"g", "r", "a", "t", "e", "f", "u", "l">>,
     <<"a", "p", "p", "r", "e", "c", "i", "a", "t", "e">>,
     <<"e", "x", "c", "i", "t", "e", "d">>, <<"j", "o", "y">>,
     <<"b", "l", "e", "s", "s", "e", "d">>,
     <<"r", "e", "c", "o", "m", "m", "e", "n", "d">>,
     <<"r", "e", "c", "o", "m", "m", "e", "n", "d", "e", "d">>,
     <<"f", "a", "v", "o", "r", "i", "t", "e">>,
     <<"f", "a", "v", "o", "u", "r", "i", "t", "e">>,
     <<"i", "m", "p", "r", "e", "s", "s", "i", "v", "e">>}

\* Transformer.NEGATIVE_WORDS
NEGATIVE_WORDS ==
    {<<"h", "a", "t", "e">>, <<"h", "a", "t", "e", "d">>,
     <<"h", "a", "t", "i", "n", "g">>, <<"b", "a", "d">>,
     <<"t", "e", "r", "r", "i", "b", "l", "e">>, <<"a", "w", "f", "u", "l">>,
     <<"w", "o", "r", "s", "t">>, <<"h", "o", "r", "r", "i", "b", "l", "e">>,
     <<"a", "n", "g", "r", "y">>, <<"s", "a", "d">>,
     <<"d", "i", "s", "a", "p", "p", "o", "i", "n", "t", "e", "d">>,
     <<"d", "i", "s", "a", "p", "p", "o", "i", "n", "t", "i", "n", "g">>,
     <<"f", "r", "u", "s", "t", "r", "a", "t", "i", "n", "g">>,
     <<"f", "r", "u", "s", "t", "r", "a", "t", "e", "d">>,
     <<"a", "n", "n", "o", "y", "i", "n", "g">>, <<"a", "n", "n", "o", "y", "e", "d">>,
     <<"u", "s", "e", "l", "e", "s", "s">>, <<"w", "a", "s", "t", "e">>,
     <<"p", "o", "o", "r">>, <<"p", "a", "t", "h", "e", "t", "i", "c">>,
     <<"d", "i", "s", "g", "u", "s", "t", "i", "n", "g">>, <<"u", "g", "l", "y">>,
     <<"s", "t", "u", "p", "i", "d">>, <<"b", "o", "r", "i", "n", "g">>,
     <<"f", "a", "i", "l">>, <<"f", "a", "i", "l", "e", "d">>,
     <<"f", "a", "i", "l", "i", "n", "g">>, <<"s", "u", "c", "k", "s">>,
     <<"b", "r", "o", "k", "e", "n">>, <<"s", "c", "a", "m">>, <<"f", "a", "k", "e">>,
     <<"t", "r", "a", "s", "h">>, <<"g", "a", "r", "b", "a", "g", "e">>,
     <<"n", "i", "g", "h", "t", "m", "a", "r", "e">>,
     <<"d", "i", "s", "a", "p", "p", "o", "i", "n", "t", "s">>}

\* positive_emojis of _analyze_sentiment (the heart is U+2764 U+FE0F)
positive_emojis ==
    {<<"U1F60A">>, <<"U1F60D">>, <<"U2764", "UFE0F">>, <<"U1F44D">>, <<"U1F389">>,
     <<"U1F4AF">>, <<"U1F64F">>, <<"U1F601">>, <<"U1F525">>, <<"U1F4AA">>}

\* negative_emojis of _analyze_sentiment
negative_emojis ==
    {<<"U1F622">>, <<"U1F621">>, <<"U1F44E">>, <<"U1F494">>, <<"U1F624">>,
     <<"U1F92E">>, <<"U1F62D">>, <<"U1F620">>, <<"U1F644">>}

\* ord(c) of the non-ASCII code points of the model (ASCII code points,
\* all below every range tested, are given as 0).
CodePoint(c) ==
    CASE c = "U00A0" -> 160
      [] c = "U00A2" -> 162
      [] c = "U00A9" -> 169
      [] c = "U00AE" -> 174
      [] c = "U00C2" -> 194
      [] c = "U00E2" -> 226
      [] c = "U200B" -> 8203
      [] c = "U2013" -> 8211
      [] c = "U2014" -> 8212
      [] c = "U2018" -> 8216
      [] c = "U2019" -> 8217
      [] c = "U201C" -> 8220
      [] c = "U201D" -> 8221
      [] c = "U201E" -> 8222
      [] c = "U2122" -> 8482
      [] c = "U2764" -> 10084
      [] c = "U4E2D" -> 20013
      [] c = "UFE0F" -> 65039
      [] c = "UFEFF" -> 65279
      [] c = "U1F389" -> 127881
      [] c = "U1F44D" -> 128077
      [] c = "U1F44E" -> 128078
      [] c = "U1F494" -> 128148
      [] c = "U1F4AA" -> 128170
      [] c = "U1F4AF" -> 128175
      [] c = "U1F525" -> 128293
      [] c = "U1F601" -> 128513
      [] c = "U1F60A" -> 128522
      [] c = "U1F60D" -> 128525
      [] c = "U1F620" -> 128544
      [] c = "U1F621" -> 128545
      [] c = "U1F622" -> 128546
      [] c = "U1F624" -> 128548
      [] c = "U1F62D" -> 128557
      [] c = "U1F644" -> 128580
      [] c = "U1F64F" -> 128591
      [] c = "U1F92E" -> 129326
      [] OTHER -> 0

\* One code point of the character class of EMOJI_PATTERN.
IsEmojiChar(c) ==
    LET cp == CodePoint(c)
    IN  \/ 128512 <= cp /\ cp <= 128591      \* U+1F600-U+1F64F
        \/ 127744 <= cp /\ cp <= 128511      \* U+1F300-U+1F5FF
        \/ 128640 <= cp /\ cp <= 128767      \* U+1F680-U+1F6FF
        \/ 127462 <= cp /\ cp <= 127487      \* U+1F1E0-U+1F1FF
        \/ 9986 <= cp /\ cp <= 10160         \* U+2702-U+27B0
        \/ 9410 <= cp /\ cp <= 127569        \* U+24C2-U+1F251

RECURSIVE EmojiRunEnd(_, _)
EmojiRunEnd(s, i) ==
    IF i <= Len(s) /\ IsEmojiChar(s[i]) THEN EmojiRunEnd(s, i + 1) ELSE i - 1

RECURSIVE FindEmojis(_, _)
\* EMOJI_PATTERN.findall(s) from position i: the pattern is "[...]+", so a
\* match is a maximal run of code points of the class.
FindEmojis(s, i) ==
    IF i > Len(s) THEN <<>>
    ELSE IF IsEmojiChar(s[i])
         THEN <<SubSeq(s, i, EmojiRunEnd(s, i))>> \o FindEmojis(s, EmojiRunEnd(s, i) + 1)
         ELSE FindEmojis(s, i + 1)

RECURSIVE FindWords(_, _)
\* set(re.findall(r'\b\w+\b', s)) from position i.
FindWords(s, i) ==
    IF i > Len(s) THEN {}
    ELSE IF IsWord(s[i])
         THEN {SubSeq(s, i, WordRunEnd(s, i))} \cup FindWords(s, WordRunEnd(s, i) + 1)
         ELSE FindWords(s, i + 1)

\* positive_count and negative_count for the set words and the list emojis.
CountsOf(words, emojis) ==
    [positive |-> Cardinality(words \cap POSITIVE_WORDS)
                  + Cardinality({i \in 1..Len(emojis) : emojis[i] \in positive_emojis}),
     negative |-> Cardinality(words \cap NEGATIVE_WORDS)
                  + Cardinality({i \in 1..Len(emojis) :
                                    /\ emojis[i] \notin positive_emojis
                                    /\ emojis[i] \in negative_emojis})]

\* positive_count and negative_count of _analyze_sentiment on a str.
SentimentCounts(text) == CountsOf(FindWords(str_lower(text), 1), FindEmojis(text, 1))

\* The decision rule on the two counts.
SentimentOfCounts(counts) ==
    IF counts.positive > counts.negative THEN "positive"
    ELSE IF counts.negative > counts.positive THEN "negative"
    ELSE "neutral"

_analyze_sentiment(text) ==
    IF text = <<>> THEN "neutral" ELSE SentimentOfCounts(SentimentCounts(text))

(***************************************************************************)
(* Transformer._calculate_engagement                                       *)
(***************************************************************************)
instagram == <<"i", "n", "s", "t", "a", "g", "r", "a", "m">>
youtube == <<"y", "o", "u", "t", "u", "b", "e">>
twitter == <<"t", "w", "i", "t", "t", "e", "r">>
reddit == <<"r", "e", "d", "d", "i", "t">>
unknown == <<"u", "n", "k", "n", "o", "w", "n">>

ENGAGEMENT_THRESHOLDS ==
    (instagram :> [low |-> 50, medium |-> 500, high |-> 5000, viral |-> 50000])
    @@ (youtube :> [low |-> 100, medium |-> 1000, high |-> 10000, viral |-> 100000])
    @@ (twitter :> [low |-> 10, medium |-> 100, high |-> 1000, viral |-> 10000])
    @@ (reddit :> [low |-> 10, medium |-> 100, high |-> 1000, viral |-> 10000])

\* The weight of a comment in engagement_score.
CommentWeight == 3

\* ENGAGEMENT_THRESHOLDS.get(platform, ENGAGEMENT_THRESHOLDS['twitter'])
ThresholdsFor(platform) ==
    IF platform.t = "str" /\ platform.s \in DOMAIN ENGAGEMENT_THRESHOLDS
    THEN ENGAGEMENT_THRESHOLDS[platform.s]
    ELSE ENGAGEMENT_THRESHOLDS[twitter]

\* A bug: the final "return 'low'" is missing, so the function returns None.
EngagementTierNoDefault(engagement_score, thresholds) ==
    IF engagement_score >= thresholds.viral THEN "viral"
    ELSE IF engagement_score >= thresholds.high THEN "high"
    ELSE IF engagement_score >= thresholds.medium THEN "medium"
    ELSE "None"

\* A bug: the comparisons exclude the threshold itself.
EngagementTierExclusive(engagement_score, thresholds) ==
    IF engagement_score > thresholds.viral THEN "viral"
    ELSE IF engagement_score > thresholds.high THEN "high"
    ELSE IF engagement_score > thresholds.medium THEN "medium"
    ELSE "low"

\* The tier of a score under a threshold table.
EngagementTier(engagement_score, thresholds) ==
    IF engagement_score >= thresholds.viral THEN "viral"
    ELSE IF engagement_score >= thresholds.high THEN "high"
    ELSE IF engagement_score >= thresholds.medium THEN "medium"
    ELSE "low"

\* dict.get hashes its key: a list is unhashable.
_calculate_engagement(likes, comments, platform) ==
    IF platform.t = "list" THEN Raise("TypeError")
    ELSE Ok(EngagementTier(likes + (comments * CommentWeight), ThresholdsFor(platform)))

(***************************************************************************)
(* DataLabeler.estimate_engagement_level                                   *)
(***************************************************************************)
\* The dict thresholds of estimate_engagement_level.
LabelerThresholds ==
    (instagram :> [medium |-> 100, high |-> 1000, viral |-> 10000])
    @@ (youtube :> [medium |-> 1000, high |-> 10000, viral |-> 100000])
    @@ (twitter :> [medium |-> 50, high |-> 500, viral |-> 5000])
    @@ (reddit :> [medium |-> 100, high |-> 1000, viral |-> 10000])

\* The weight of a comment in total_engagement.
LabelerCommentWeight == 2

\* levels = thresholds.get(platform, thresholds['twitter'])
LevelsFor(platform) ==
    IF platform.t = "str" /\ platform.s \in DOMAIN LabelerThresholds
    THEN LabelerThresholds[platform.s]
    ELSE LabelerThresholds[twitter]

estimate_engagement_level(likes, comments, platform) ==
    IF platform.t = "list" THEN Raise("TypeError")
    ELSE Ok(EngagementTier(likes + (comments * LabelerCommentWeight), LevelsFor(platform)))

(***************************************************************************)
(* Transformer._normalize_timestamp                                        *)
(***************************************************************************)
\* A datetime object: the fields of dt are year, month, day, hour, minute,
\* second, microsecond, and tz, the utcoffset (aware is FALSE for a naive
\* datetime; neg, s and us are its sign, seconds and microseconds).
DateTimeV(dt) == [t |-> "datetime", s |-> <<>>, n |-> 0, dt |-> dt]

Naive == [aware |-> FALSE, neg |-> FALSE, s |-> 0, us |-> 0]

\* "%0wd" % n, for the digits of n.
RECURSIVE Pad(_, _)
Pad(digits, w) == IF Len(digits) >= w THEN digits ELSE Pad(<<"0">> \o digits, w)

\* The utcoffset part of datetime.isoformat().
format_offset(tz) ==
    IF ~tz.aware THEN <<>>
    ELSE <<IF tz.neg /\ (tz.s # 0 \/ tz.us # 0) THEN "-" ELSE "+">>
         \o Pad(NatStr(tz.s \div 3600), 2) \o <<":">> \o Pad(NatStr((tz.s % 3600) \div 60), 2)
         \o (IF tz.s % 60 # 0 \/ tz.us # 0 THEN <<":">> \o Pad(NatStr(tz.s % 60), 2) ELSE <<>>)
         \o (IF tz.us # 0 THEN <<".">> \o Pad(NatStr(tz.us), 6) ELSE <<>>)

\* datetime.isoformat()
isoformat(dt) ==
    Pad(NatStr(dt.year), 4) \o <<"-">> \o Pad(NatStr(dt.month), 2) \o <<"-">>
    \o Pad(NatStr(dt.day), 2) \o <<"T">> \o Pad(NatStr(dt.hour), 2) \o <<":">>
    \o Pad(NatStr(dt.minute), 2) \o <<":">> \o Pad(NatStr(dt.second), 2)
    \o (IF dt.microsecond # 0 THEN <<".">> \o Pad(NatStr(dt.microsecond), 6) ELSE <<>>)
    \o format_offset(dt.tz)

\* The formats tried, in order; "%x" is a directive, " " any run of white
\* space, any other token a character matched without regard to case.
formats ==
    <<<<"%Y", "-", "%m", "-", "%d", "T", "%H", ":", "%M", ":", "%S", ".", "%f", "Z">>,
      <<"%Y", "-", "%m", "-", "%d", "T", "%H", ":", "%M", ":", "%S", "Z">>,
      <<"%Y", "-", "%m", "-", "%d", "T", "%H", ":", "%M", ":", "%S", "%z">>,
      <<"%Y", "-", "%m", "-", "%d", "T", "%H", ":", "%M", ":", "%S", ".", "%f", "%z">>,
      <<"%Y", "-", "%m", "-", "%d", "T", "%H", ":", "%M", ":", "%S">>,
      <<"%Y", "-", "%m", "-", "%d", " ", "%H", ":", "%M", ":", "%S">>>>

\* The fields strptime starts from.
NoFields ==
    [year |-> 1900, month |-> 1, day |-> 1, hour |-> 0, minute |-> 0, second |-> 0,
     microsecond |-> 0, tz |-> Naive]

FieldOf(directive) ==
    CASE directive = "%Y" -> "year" [] directive = "%m" -> "month"
      [] directive = "%d" -> "day" [] directive = "%H" -> "hour"
      [] directive = "%M" -> "minute" [] directive = "%S" -> "second"
      [] directive = "%f" -> "microsecond"

\* The digits run is what the regular expression of the directive accepts.
FieldOk(directive, run) ==
    /\ Len(run) \in 1..6
    /\ CASE directive = "%Y" -> Len(run) = 4
         [] directive = "%m" ->
                \/ Len(run) = 1 /\ run[1] # "0"
                \/ Len(run) = 2 /\ DigitsVal(run) \in 1..12
         [] directive = "%d" ->
                \/ Len(run) = 1 /\ run[1] # "0"
                \/ Len(run) = 2 /\ DigitsVal(run) \in 1..31
         [] directive = "%H" -> Len(run) = 1 \/ (Len(run) = 2 /\ DigitsVal(run) <= 23)
         [] directive = "%M" -> Len(run) = 1 \/ (Len(run) = 2 /\ DigitsVal(run) <= 59)
         [] directive = "%S" -> Len(run) = 1 \/ (Len(run) = 2 /\ DigitsVal(run) <= 61)
         [] directive = "%f" -> TRUE

\* The number a directive reads from its digits ("%f" pads on the right).
FieldVal(directive, run) ==
    IF directive = "%f" THEN DigitsVal(run \o SubSeq(<<"0", "0", "0", "0", "0">>, 1, 6 - Len(run)))
    ELSE DigitsVal(run)

\* End of the run of digits that starts at position i.
RECURSIVE DigitRunEnd(_, _)
DigitRunEnd(s, i) == IF i <= Len(s) /\ s[i] \in Digits THEN DigitRunEnd(s, i + 1) ELSE i

\* A "%z" offset without its sign and without its colons: hhmm, hhmmss or
\* hhmmss.f; <<>> when the colons are not used consistently.
OffsetBody(b) ==
    IF Len(b) >= 5 /\ b[3] = ":"
    THEN IF Len(b) = 5 THEN SubSeq(b, 1, 2) \o SubSeq(b, 4, 5)
         ELSE IF Len(b) >= 8 /\ b[6] = ":"
         THEN SubSeq(b, 1, 2) \o SubSeq(b, 4, 5) \o SubSeq(b, 7, Len(b))
         ELSE <<>>
    ELSE b

\* c is hhmm, hhmmss or hhmmss.f with minutes and seconds below 60.
OffsetOk(c) ==
    /\ Len(c) \in {4, 6} \cup 8..13
    /\ AllDigits(SubSeq(c, 1, 4)) /\ c[3] \in {"0", "1", "2", "3", "4", "5"}
    /\ Len(c) >= 6 => AllDigits(SubSeq(c, 5, 6)) /\ c[5] \in {"0", "1", "2", "3", "4", "5"}
    /\ Len(c) >= 8 => c[7] = "." /\ AllDigits(SubSeq(c, 8, Len(c)))

\* The utcoffset read from c.
OffsetOf(neg, c) ==
    [aware |-> TRUE, neg |-> neg,
     s |-> DigitsVal(SubSeq(c, 1, 2)) * 3600 + DigitsVal(SubSeq(c, 3, 4)) * 60
           + (IF Len(c) >= 6 THEN DigitsVal(SubSeq(c, 5, 6)) ELSE 0),
     us |-> IF Len(c) >= 8
            THEN DigitsVal(SubSeq(c, 8, Len(c)) \o SubSeq(<<"0", "0", "0", "0", "0">>, 1, 13 - Len(c)))
            ELSE 0]

RECURSIVE StrpFrom(_, _, _, _, _)

\* "%z", always the last directive of a format, reads rest: "Z", or a sign
\* and an offset.  (A lower-case "z" is read by the literal Z of an earlier
\* format.)
StrpOffset(rest, found, c) ==
    IF rest = <<"Z">> THEN [ok |-> TRUE, found |-> [found EXCEPT !.tz = OffsetOf(FALSE, <<"0", "0", "0", "0">>)]]
    ELSE IF rest # <<>> /\ rest[1] \in {"+", "-"} /\ OffsetOk(c)
    THEN [ok |-> TRUE, found |-> [found EXCEPT !.tz = OffsetOf(rest[1] = "-", c)]]
    ELSE [ok |-> FALSE, found |-> found]

\* A numeric directive reads the digits from i up to e.
StrpField(s, i, fmt, j, found, e) ==
    IF FieldOk(fmt[j], SubSeq(s, i, e - 1))
    THEN StrpFrom(s, e, fmt, j + 1,
                  [found EXCEPT ![FieldOf(fmt[j])] = FieldVal(fmt[j], SubSeq(s, i, e - 1))])
    ELSE [ok |-> FALSE, found |-> found]

\* The token fmt[j] is matched at position i of s.
StrpToken(s, i, fmt, j, found, tok) ==
    IF tok = "%z" THEN StrpOffset(SubSeq(s, i, Len(s)), found,
                                  OffsetBody(SubSeq(s, i + 1, Len(s))))
    ELSE IF tok = "%d" /\ i < Len(s) /\ s[i] = " " /\ s[i + 1] \in Digits \ {"0"}
    \* a day may be written as a space and one digit
    THEN StrpFrom(s, i + 2, fmt, j + 1, [found EXCEPT !.day = DigitVal(s[i + 1])])
    ELSE IF tok \in {"%Y", "%m", "%d", "%H", "%M", "%S", "%f"}
    THEN StrpField(s, i, fmt, j, found, DigitRunEnd(s, i))
    ELSE IF tok = " "
    THEN IF i <= Len(s) /\ IsSpace(s[i])
         THEN StrpFrom(s, SpaceRunEnd(s, i) + 1, fmt, j + 1, found)
         ELSE [ok |-> FALSE, found |-> found]
    ELSE IF i <= Len(s) /\ (s[i] = tok \/ <<tok, s[i]>> \in {<<"T", "t">>, <<"Z", "z">>})
    THEN StrpFrom(s, i + 1, fmt, j + 1, found)
    ELSE [ok |-> FALSE, found |-> found]

\* The tokens of fmt from the j-th on match s from position i to its end.
StrpFrom(s, i, fmt, j, found) ==
    IF j > Len(fmt) THEN [ok |-> i = Len(s) + 1, found |-> found]
    ELSE StrpToken(s, i, fmt, j, found, fmt[j])

DaysInMonth(year, month) ==
    IF month = 2
    THEN IF year % 4 = 0 /\ (year % 100 # 0 \/ year % 400 = 0) THEN 29 ELSE 28
    ELSE IF month \in {4, 6, 9, 11} THEN 30 ELSE 31

\* The datetime and timezone constructors accept the fields that were read.
ValidFields(m) ==
    /\ m.ok
    /\ m.found.year >= 1
    /\ m.found.day <= DaysInMonth(m.found.year, m.found.month)
    /\ m.found.second <= 59
    /\ m.found.tz.s < 24 * 3600

\* datetime.strptime(s, fmt): ok is FALSE when it raises ValueError.
strptime(s, fmt) == [ok |-> ValidFields(StrpFrom(s, 1, fmt, 1, NoFields)),
                     dt |-> StrpFrom(s, 1, fmt, 1, NoFields).found]

\* A bug: a string no format parses gives None.
UnparsedGivesNone(timestamp) == None

\* "Return as-is if can't parse"
Unparsed(timestamp) == timestamp

RECURSIVE TryFormats(_, _)
\* The for loop over formats from the k-th format on.
TryFormats(timestamp, k) ==
    IF k > Len(formats) THEN Unparsed(timestamp)
    ELSE IF strptime(timestamp.s, formats[k]).ok
    THEN StrV(isoformat(strptime(timestamp.s, formats[k]).dt))
    ELSE TryFormats(timestamp, k + 1)

_normalize_timestamp(timestamp) ==
    IF ~Truthy(timestamp) THEN None
    ELSE IF timestamp.t = "datetime" THEN StrV(isoformat(timestamp.dt))
    ELSE IF timestamp.t = "str" THEN TryFormats(timestamp, 1)
    ELSE None

(***************************************************************************)
(* MENTION_PATTERN and URL_PATTERN                                         *)
(***************************************************************************)
RECURSIVE NonSpaceRunEnd(_, _)
\* Last position of the maximal run of \S code points of s starting at i.
NonSpaceRunEnd(s, i) ==
    IF i <= Len(s) /\ ~IsSpace(s[i]) THEN NonSpaceRunEnd(s, i + 1) ELSE i - 1

\* End of a match "prefix\S+" at i, given the end e of the run of \S after
\* the prefix; 0 if there is no match.
PrefixedRunEnd(s, i, prefix, e) ==
    IF MatchAt(s, i, prefix) /\ e >= i + Len(prefix) THEN e ELSE 0

AfterPrefix(s, i, prefix) ==
    PrefixedRunEnd(s, i, prefix, NonSpaceRunEnd(s, i + Len(prefix)))

FirstMatch(https, http, www) ==
    IF https > 0 THEN https ELSE IF http > 0 THEN http ELSE www

\* End of the match of URL_PATTERN, 'https?://\S+|www\.\S+', at i; 0 if none.
UrlEndAt(s, i) ==
    FirstMatch(AfterPrefix(s, i, <<"h", "t", "t", "p", "s", ":", "/", "/">>),
               AfterPrefix(s, i, <<"h", "t", "t", "p", ":", "/", "/">>),
               AfterPrefix(s, i, <<"w", "w", "w", ".">>))

RECURSIVE CountUrlsFrom(_, _, _)
\* len(URL_PATTERN.findall(s)) from position i, where e = UrlEndAt(s, i).
CountUrlsFrom(s, i, e) ==
    IF i > Len(s) THEN 0
    ELSE IF e > 0 THEN 1 + CountUrlsFrom(s, e + 1, IF e + 1 > Len(s) THEN 0 ELSE UrlEndAt(s, e + 1))
    ELSE CountUrlsFrom(s, i + 1, IF i + 1 > Len(s) THEN 0 ELSE UrlEndAt(s, i + 1))

CountUrls(s, i) == CountUrlsFrom(s, i, IF i > Len(s) THEN 0 ELSE UrlEndAt(s, i))

RECURSIVE CountMentions(_, _)
\* len(MENTION_PATTERN.findall(s)) from position i; the pattern is '@\w+'.
CountMentions(s, i) ==
    IF i > Len(s) THEN 0
    ELSE IF s[i] = "@" /\ WordRunEnd(s, i + 1) >= i + 1
         THEN 1 + CountMentions(s, WordRunEnd(s, i + 1) + 1)
         ELSE CountMentions(s, i + 1)

(***************************************************************************)
(* TextProcessor.remove_urls / extract_mentions / prepare_for_sentiment    *)
(* (src/utils.py); its URL, mention and emoji patterns are those of the    *)
(* Transformer.                                                            *)
(***************************************************************************)
RECURSIVE SubUrlsFrom(_, _, _)
\* URL_PATTERN.sub('', s) from position i, where e = UrlEndAt(s, i).
SubUrlsFrom(s, i, e) ==
    IF i > Len(s) THEN <<>>
    ELSE IF e > 0 THEN SubUrlsFrom(s, e + 1, IF e + 1 > Len(s) THEN 0 ELSE UrlEndAt(s, e + 1))
    ELSE <<s[i]>> \o SubUrlsFrom(s, i + 1, IF i + 1 > Len(s) THEN 0 ELSE UrlEndAt(s, i + 1))

\* TextProcessor.remove_urls(text)
remove_urls(text) ==
    IF text = <<>> THEN text ELSE str_strip(SubUrlsFrom(text, 1, UrlEndAt(text, 1)))

RECURSIVE FindMentions(_, _)
\* MENTION_PATTERN.findall(s) from position i: the whole matches of '@\w+'.
FindMentions(s, i) ==
    IF i > Len(s) THEN <<>>
    ELSE IF s[i] = "@" /\ WordRunEnd(s, i + 1) >= i + 1
         THEN <<SubSeq(s, i, WordRunEnd(s, i + 1))>> \o FindMentions(s, WordRunEnd(s, i + 1) + 1)
         ELSE FindMentions(s, i + 1)

\* TextProcessor.extract_mentions(text)
extract_mentions(text) == IF text = <<>> THEN <<>> ELSE FindMentions(text, 1)

RECURSIVE SubMentions(_, _)
\* re.sub(r'@\w+', '', s) from position i.
SubMentions(s, i) ==
    IF i > Len(s) THEN <<>>
    ELSE IF s[i] = "@" /\ WordRunEnd(s, i + 1) >= i + 1
         THEN SubMentions(s, WordRunEnd(s, i + 1) + 1)
         ELSE <<s[i]>> \o SubMentions(s, i + 1)

\* EMOJI_PATTERN.sub('', s)
SubEmojis(s) == SelectSeq(s, LAMBDA c : ~IsEmojiChar(c))

\* The text after clean, remove_urls and remove_hashtags, with the emojis
\* removed unless include_emojis.
Stripped(cleaned, include_emojis) ==
    IF include_emojis THEN cleaned ELSE SubEmojis(cleaned)

\* TextProcessor.prepare_for_sentiment(text, include_emojis) for a str text.
prepare_for_sentiment(text, include_emojis) ==
    IF text = <<>>
    THEN [cleaned_text |-> <<>>, hashtags |-> <<>>, mentions |-> <<>>,
          has_urls |-> FALSE, emoji_count |-> 0]
    ELSE [cleaned_text |->
              CollapseWhitespace(SubMentions(
                  Stripped(remove_hashtags(remove_urls(TextProcessor_clean(StrV(text)).v.s)),
                           include_emojis), 1)),
          hashtags |-> extract_hashtags(text),
          mentions |-> extract_mentions(text),
          has_urls |-> CountUrls(text, 1) > 0,
          emoji_count |-> Len(FindEmojis(text, 1))]

(***************************************************************************)
(* Transformer._transform_single and Transformer.transform                 *)
(***************************************************************************)
\* The keys of a raw record that the transform reads.
RawKeys ==
    {"post_id", "platform", "post_text", "hashtags", "likes", "comments",
     "retweet_count", "view_count", "upvote_ratio", "timestamp", "image_url"}

\* post.get(key, default)
Get(post, key, default) == IF post[key].t = "absent" THEN default ELSE post[key]

\* A bug: a handler that names one class only ("except ValueError").
ExceptValueErrorOnly(exc) == exc = "ValueError"

\* The classes caught by "except Exception" in transform: every exception
\* the normalisation of a mapping can raise derives from Exception.
IsException(exc) ==
    exc \in {"AttributeError", "TypeError", "ValueError", "OverflowError",
             "ConstraintException"}

\* First exception among the outcomes, in program order ("none" if none).
RECURSIVE FirstExc(_)
FirstExc(outcomes) ==
    IF outcomes = <<>> THEN "none"
    ELSE IF outcomes[1].exc # "none" THEN outcomes[1].exc
    ELSE FirstExc(Tail(outcomes))

\* A bug: a record without a timestamp is given the time of the call.
LabelledNowAsTimestamp(post, t, tallied, post_text, hashtags, likes, comments, retweet_count, view_count, sentiment_label, engagement, original) ==
    IF engagement.exc # "none"
    THEN [returned |-> "raise", exc |-> engagement.exc, result |-> post,
          stats |-> tallied]
    ELSE IF original.t # "str"
    THEN [returned |-> "raise", exc |-> "TypeError", result |-> post, stats |-> tallied]
    ELSE [returned |-> "dict", exc |-> "none", stats |-> tallied,
          result |->
              [post_text |-> post_text,
               hashtags |-> hashtags,
               likes |-> likes,
               comments |-> comments,
               retweet_count |-> retweet_count,
               view_count |-> view_count,
               timestamp |-> IF Truthy(Get(post, "timestamp", None))
                             THEN _normalize_timestamp(Get(post, "timestamp", None))
                             ELSE IntV(t),
               sentiment_label |-> sentiment_label,
               engagement_level |-> engagement.v,
               word_count |-> Len(str_split(post_text.s)),
               has_media |-> Truthy(Get(post, "image_url", None)),
               mention_count |-> CountMentions(original.s, 1),
               url_count |-> CountUrls(original.s, 1),
               processed_at |-> t]
              @@ [k \in RawKeys |-> post[k]]]

\* Steps 5 to 8 of _transform_single, after the fields were normalised
\* without an exception: original is post.get('post_text', ''), tallied is
\* self.stats after the sentiment tally.
Labelled(post, t, tallied, post_text, hashtags, likes, comments, retweet_count, view_count, sentiment_label, engagement, original) ==
    IF engagement.exc # "none"
    THEN [returned |-> "raise", exc |-> engagement.exc, result |-> post,
          stats |-> tallied]
    ELSE IF original.t # "str"
    \* MENTION_PATTERN.findall(None) raises TypeError
    THEN [returned |-> "raise", exc |-> "TypeError", result |-> post, stats |-> tallied]
    ELSE [returned |-> "dict", exc |-> "none", stats |-> tallied,
          result |->
              [post_text |-> post_text,
               hashtags |-> hashtags,
               likes |-> likes,
               comments |-> comments,
               retweet_count |-> retweet_count,
               view_count |-> view_count,
               timestamp |-> _normalize_timestamp(Get(post, "timestamp", None)),
               sentiment_label |-> sentiment_label,
               engagement_level |-> engagement.v,
               word_count |-> Len(str_split(post_text.s)),
               has_media |-> Truthy(Get(post, "image_url", None)),
               mention_count |-> CountMentions(original.s, 1),
               url_count |-> CountUrls(original.s, 1),
               processed_at |-> t]
              \* result = post.copy(): the keys not assigned above
              @@ [k \in RawKeys |-> post[k]]]

\* Step 5: the sentiment label of the cleaned text is tallied in self.stats
\* before the later steps run.
Tallied(post, st, t, post_text, hashtags, likes, comments, retweet_count, view_count, sentiment_label) ==
    Labelled(post, t, [st EXCEPT !.sentiment[sentiment_label] = @ + 1],
             post_text, hashtags, likes, comments, retweet_count, view_count,
             sentiment_label,
             _calculate_engagement(likes.n, comments.n, Get(post, "platform", StrV(unknown))),
             Get(post, "post_text", StrV(<<>>)))

\* Steps 1 to 3 gave these outcomes; the first exception among them, in
\* program order, leaves _transform_single.
Normalised(post, st, t, post_text, hashtags, likes, comments, retweet_count, view_count, early) ==
    IF early # "none"
    THEN [returned |-> "raise", exc |-> early, result |-> post, stats |-> st]
    ELSE Tallied(post, st, t, post_text.v, hashtags.v, likes.v, comments.v,
                 retweet_count.v, view_count.v, _analyze_sentiment(post_text.v.s))

NormalisedFields(post, st, t, post_text, hashtags, likes, comments, retweet_count, view_count) ==
    Normalised(post, st, t, post_text, hashtags, likes, comments, retweet_count, view_count,
               FirstExc(<<post_text, hashtags, likes, comments, retweet_count, view_count>>))

\* A bug: the key is tested for presence, not for a truthy value.
HasPostIdKey(post) == post["post_id"].t # "absent"

\* The guard of _transform_single: post.get('post_id') is truthy.
HasPostId(post) == Truthy(Get(post, "post_id", None))

\* One call of _transform_single on Transformer state st at clock time t:
\* returned is "none" (return None), "dict" (result) or "raise" (exc); stats
\* is self.stats as the call leaves it.
_transform_single(post, st, t) ==
    IF ~HasPostId(post)
    THEN [returned |-> "none", exc |-> "none", result |-> post, stats |-> st]
    ELSE NormalisedFields(post, st, t,
                          _clean_text(Get(post, "post_text", StrV(<<>>))),
                          _normalize_hashtags(Get(post, "hashtags", StrV(<<>>))),
                          _safe_int(Get(post, "likes", IntV(0))),
                          _safe_int(Get(post, "comments", IntV(0))),
                          _safe_int(Get(post, "retweet_count", IntV(0))),
                          _safe_int(Get(post, "view_count", IntV(0))))

RECURSIVE TransformLoop(_, _, _, _, _)
RECURSIVE LoopBody(_, _, _, _, _)

\* A mistake: "result = post", the emitted mapping being the input itself.
PostAliased(post, r) == IF r.returned = "dict" THEN r.result ELSE post

\* The mapping post as a call of _transform_single that did r leaves it:
\* result is post.copy(), every assignment of the call goes to result or to
\* self.stats, and no value of post is modified in place.
PostAfter(post, r) == post

\* The outcome of the rest of the loop, the list posts holding post first.
Seen(post, outcome) == [outcome EXCEPT !.posts = <<post>> \o @]

\* One iteration of the for loop of transform, r being what
\* _transform_single did for the i-th post.
LoopBody(ps, i, out, t, r) ==
    IF r.returned = "dict"
    THEN Seen(PostAfter(ps[i], r),
              TransformLoop(ps, i + 1, [r.stats EXCEPT !.processed = @ + 1],
                            Append(out, r.result), t))
    ELSE IF r.returned = "none"
    THEN Seen(PostAfter(ps[i], r), TransformLoop(ps, i + 1, r.stats, out, t))
    ELSE IF IsException(r.exc)
    THEN Seen(PostAfter(ps[i], r),
              TransformLoop(ps, i + 1, [r.stats EXCEPT !.errors = @ + 1], out, t))
    ELSE [stats |-> r.stats, transformed |-> <<>>, raised |-> TRUE,
          posts |-> <<PostAfter(ps[i], r)>> \o SubSeq(ps, i + 1, Len(ps))]

\* The for loop of transform from the i-th post on, with self.stats = st and
\* the list transformed = out; posts is the list posts from the i-th post
\* on as the call leaves it.
TransformLoop(ps, i, st, out, t) ==
    IF i > Len(ps) THEN [stats |-> st, transformed |-> out, raised |-> FALSE, posts |-> <<>>]
    ELSE LoopBody(ps, i, out, t, _transform_single(ps[i], st, t))

\* Transformer.transform(posts) on Transformer state st at clock time t.
transform(ps, st, t) == TransformLoop(ps, 1, st, <<>>, t)

(***************************************************************************)
(* Raw records handed to the transform.                                    *)
(***************************************************************************)
NoKeys == [k \in RawKeys |-> Absent]

Raw(fields) == fields @@ NoKeys

love_it == <<"l", "o", "v", "e", " ", "i", "t">>

yesterday == <<"y", "e", "s", "t", "e", "r", "d", "a", "y">>

iso_jan == <<"2", "0", "2", "4", "-", "0", "1", "-", "0", "5", "T", "1", "0", ":", "2", "0", ":", "3", "0">>

\* A well-formed record.
RawGood ==
    Raw([post_id |-> StrV(<<"p", "1">>), platform |-> StrV(reddit),
         post_text |-> StrV(love_it), hashtags |-> StrV(<<"#", "A", ",", " ", "b", "c">>),
         likes |-> StrV(<<"1", ",", "2", "3", "4">>), comments |-> IntV(2),
         upvote_ratio |-> IntV(1),
         image_url |-> StrV(<<"w", "w", "w", ".", "x">>)])

\* No post_id key.
RawNoId == Raw([platform |-> StrV(reddit), post_text |-> StrV(<<"b", "a", "d">>)])

\* An empty post_id.
RawEmptyId == Raw([post_id |-> StrV(<<>>), platform |-> StrV(twitter)])

\* No platform, a negative counter, a garbage counter, a null counter.
RawNoPlatform ==
    Raw([post_id |-> StrV(<<"p", "2">>), post_text |-> StrV(<<"b", "a", "d">>),
         likes |-> IntV(-5), comments |-> StrV(<<"a", "b", "c">>),
         view_count |-> None])

\* post_text of a foreign type: int has no .replace.
RawIntText ==
    Raw([post_id |-> StrV(<<"p", "3">>), platform |-> StrV(youtube),
         post_text |-> IntV(5)])

\* A null post_text.
RawNullText ==
    Raw([post_id |-> StrV(<<"p", "4">>), platform |-> StrV(twitter),
         post_text |-> None, likes |-> IntV(7)])

\* An unhashable platform.
RawListPlatform ==
    Raw([post_id |-> StrV(<<"p", "5">>), platform |-> List,
         post_text |-> StrV(<<"l", "o", "v", "e">>)])

\* A counter that float() reads as infinity.
RawInfLikes ==
    Raw([post_id |-> StrV(<<"p", "6">>), platform |-> StrV(instagram),
         post_text |-> StrV(<<"U1F60A">>), likes |-> StrV(<<"i", "n", "f">>)])

\* A zero-width space inside an HTML entity, and a timestamp no format
\* parses.
RawZeroWidth ==
    Raw([post_id |-> StrV(<<"p", "7">>), platform |-> StrV(reddit),
         post_text |-> StrV(<<"g", "o", "&", "U200B", "#", "x", "2", "0", "0", "B", ";",
                              "o", "d">>),
         timestamp |-> StrV(yesterday)])

RawRecords ==
    {RawGood, RawNoId, RawEmptyId, RawNoPlatform, RawIntText, RawNullText,
     RawListPlatform, RawInfLikes, RawZeroWidth}

\* The lists of at most n raw records.
Batches(n) == UNION {[1..k -> RawRecords] : k \in 0..n}

(***************************************************************************)
(* Database.insert_posts (src/database.py)                                 *)
(***************************************************************************)
\* post.get(key, default), for a mapping that may lack the key.
PostGet(post, key, default) ==
    IF key \in DOMAIN post THEN Get(post, key, default) ELSE default

\* post.get(key) of a label (the labels are plain strings, "None" is None).
LabelGet(post, key) == IF key \in DOMAIN post THEN post[key] ELSE "None"

\* The value datetime.now() returns at clock time t.
ClockV(t) == [t |-> "clock", s |-> <<>>, n |-> t]

\* The formats of datetime.fromisoformat that the strings of the model use:
\* a date, any separator, a time with seconds, then an optional fraction and
\* an optional offset.
isoformats ==
    <<formats[5], formats[3],
      formats[5] \o <<".", "%f">>, formats[4]>>

\* The fields of s are two digits wide (four for the year).
FixedWidth(s) ==
    /\ Len(s) >= 19
    /\ \A i \in 1..19 :
          CASE i \in {5, 8} -> s[i] = "-"
            [] i \in {14, 17} -> s[i] = ":"
            [] i = 11 -> TRUE
            [] OTHER -> s[i] \in Digits

RECURSIVE FirstIso(_, _)
FirstIso(s, k) ==
    IF k > Len(isoformats) THEN [ok |-> FALSE, dt |-> NoFields]
    ELSE IF strptime(s, isoformats[k]).ok THEN strptime(s, isoformats[k])
    ELSE FirstIso(s, k + 1)

\* A date and a time: the separator may be any character.
IsoDateTime(s) ==
    IF FixedWidth(s) THEN FirstIso([s EXCEPT ![11] = "T"], 1)
    ELSE [ok |-> FALSE, dt |-> NoFields]

\* datetime.fromisoformat(s): ok is FALSE when it raises ValueError.  A date
\* alone is that day at midnight.
fromisoformat(s) ==
    IsoDateTime(IF Len(s) = 10 THEN s \o <<"T", "0", "0", ":", "0", "0", ":", "0", "0">> ELSE s)

\* The timestamp parameter of the INSERT: None unless the post has a
\* string that fromisoformat reads (ValueError and AttributeError are
\* caught); the replace method of a datetime raises TypeError.
TimestampParam(v) ==
    IF ~Truthy(v) THEN Ok(None)
    ELSE IF v.t = "datetime" THEN Raise("TypeError")
    ELSE IF v.t # "str" THEN Ok(None)
    ELSE IF fromisoformat(str_replace(v.s, <<"Z">>, <<"+", "0", "0", ":", "0", "0">>)).ok
    THEN Ok(DateTimeV(fromisoformat(str_replace(v.s, <<"Z">>, <<"+", "0", "0", ":", "0", "0">>)).dt))
    ELSE Ok(None)

\* The scraped_at parameter: datetime.now() when the string cannot be
\* read; fromisoformat of a value that is not a str raises TypeError.
ScrapedAtParam(v, t) ==
    IF ~Truthy(v) THEN Ok(None)
    ELSE IF v.t # "str" THEN Raise("TypeError")
    ELSE IF fromisoformat(v.s).ok THEN Ok(DateTimeV(fromisoformat(v.s).dt))
    ELSE Ok(ClockV(t))

\* int(s) of a str: an optional sign and at most nine digits.
IntOfStr(s) ==
    IF s # <<>> /\ s[1] \in {"+", "-"} /\ Len(s) \in 2..9 /\ AllDigits(Tail(s))
    THEN Ok(IntV(IF s[1] = "-" THEN 0 - DigitsVal(Tail(s)) ELSE DigitsVal(Tail(s))))
    ELSE IF Len(s) \in 1..9 /\ AllDigits(s) THEN Ok(IntV(DigitsVal(s)))
    ELSE Raise("ValueError")

\* int(v or 0) and float(v or 0) (the ratios of the model are whole
\* numbers, and so are the numbers its strings spell).
IntOrZero(v) ==
    IF ~Truthy(v) THEN Ok(IntV(0))
    ELSE IF v.t \in {"int", "bool"} THEN Ok(IntV(v.n))
    ELSE IF v.t = "str" THEN IntOfStr(str_strip(v.s))
    ELSE Raise("TypeError")

\* The columns that take post.get(key) as it is.
PlainColumns ==
    {"post_id", "platform", "post_text", "hashtags", "image_url", "author", "url",
     "subreddit", "duration", "channel_id"}

\* The row the parameters of the INSERT spell, once they were all computed.
ParamsRow(post, t, timestamp, scraped_at, likes, comments, upvote_ratio, retweet_count, view_count) ==
    [timestamp |-> timestamp.v, scraped_at |-> scraped_at.v, likes |-> likes.v,
     comments |-> comments.v, upvote_ratio |-> upvote_ratio.v,
     retweet_count |-> retweet_count.v, view_count |-> view_count.v,
     sentiment_label |-> LabelGet(post, "sentiment_label"),
     engagement_level |-> LabelGet(post, "engagement_level"),
     processed_at |-> ClockV(t)]
    @@ [k \in PlainColumns |-> PostGet(post, k, None)]

\* The parameters of the INSERT for one post, or the first exception that
\* computing them raises.
ParamsOutcome(post, t, timestamp, scraped_at, likes, comments, upvote_ratio, retweet_count, view_count) ==
    [exc |-> FirstExc(<<timestamp, scraped_at, likes, comments, upvote_ratio,
                        retweet_count, view_count>>),
     row |-> ParamsRow(post, t, timestamp, scraped_at, likes, comments, upvote_ratio,
                       retweet_count, view_count)]

Params(post, t) ==
    ParamsOutcome(post, t,
                  TimestampParam(PostGet(post, "timestamp", None)),
                  ScrapedAtParam(PostGet(post, "scraped_at", None), t),
                  IntOrZero(PostGet(post, "likes", IntV(0))),
                  IntOrZero(PostGet(post, "comments", IntV(0))),
                  IntOrZero(PostGet(post, "upvote_ratio", IntV(0))),
                  IntOrZero(PostGet(post, "retweet_count", IntV(0))),
                  IntOrZero(PostGet(post, "view_count", IntV(0))))

\* The stored row and the new row have the same (post_id, platform).
SameKey(stored, row) == stored.post_id = row.post_id /\ stored.platform = row.platform

\* A bug: an INSERT without the ON CONFLICT clause and without the UNIQUE
\* constraint.
UpsertAppends(table, row) == Append(table, row @@ [id |-> Len(table) + 1])

\* A bug: DO UPDATE SET that overwrites every column.
UpsertOverwrites(table, row) ==
    IF \E i \in 1..Len(table) : SameKey(table[i], row)
    THEN [i \in 1..Len(table) |->
             IF SameKey(table[i], row) THEN row @@ [id |-> table[i].id] ELSE table[i]]
    ELSE Append(table, row @@ [id |-> Len(table) + 1])

\* INSERT ... ON CONFLICT (post_id, platform) DO UPDATE SET likes, comments,
\* scraped_at: the table after a row that violates no constraint.
Upsert(table, row) ==
    IF \E i \in 1..Len(table) : SameKey(table[i], row)
    THEN [i \in 1..Len(table) |->
             IF SameKey(table[i], row)
             THEN [table[i] EXCEPT !.likes = row.likes, !.comments = row.comments,
                                   !.scraped_at = row.scraped_at]
             ELSE table[i]]
    ELSE Append(table, row @@ [id |-> Len(table) + 1])

\* conn.execute of the INSERT: post_id and platform are NOT NULL; the
\* statement names no value for id INTEGER PRIMARY KEY, and the engine
\* either fills it (engine is TRUE) or rejects the row for a NULL key.
Execute(table, row, engine) ==
    IF row.post_id.t = "none" \/ row.platform.t = "none" \/ ~engine
    THEN [exc |-> "ConstraintException", rows |-> table]
    ELSE [exc |-> "none", rows |-> Upsert(table, row)]

RECURSIVE InsertLoop(_, _, _, _, _, _)

\* The try block of insert_posts for one post whose parameters are p.
Attempt(table, engine, p) ==
    IF p.exc # "none" THEN [exc |-> p.exc, rows |-> table]
    ELSE Execute(table, p.row, engine)

\* One iteration of the for loop of insert_posts, a being the outcome of its
\* try block: an exception is logged and the loop goes on.
InsertBody(ps, i, table, inserted, engine, t, a) ==
    IF a.exc = "none" THEN InsertLoop(ps, i + 1, a.rows, inserted + 1, engine, t)
    ELSE IF IsException(a.exc) THEN InsertLoop(ps, i + 1, table, inserted, engine, t)
    ELSE [exc |-> a.exc, rows |-> table, inserted |-> inserted]

InsertLoop(ps, i, table, inserted, engine, t) ==
    IF i > Len(ps) THEN [exc |-> "none", rows |-> table, inserted |-> inserted]
    ELSE InsertBody(ps, i, table, inserted, engine, t, Attempt(table, engine, Params(ps[i], t)))

\* Database.insert_posts(posts) on the table at clock time t: the table it
\* leaves and the number it returns.
insert_posts(ps, table, engine, t) ==
    IF ps = <<>> THEN [exc |-> "none", rows |-> table, inserted |-> 0]
    ELSE InsertLoop(ps, 1, table, 0, engine, t)

(***************************************************************************)
(* Loader.load and Loader.load_with_validation                             *)
(***************************************************************************)
\* Loader.load(posts) with self.stats = ls: what insert_posts did (r).
LoadReturns(ls, r) ==
    [rows |-> r.rows, loaded |-> r.inserted,
     stats |-> [ls EXCEPT !.loaded = @ + r.inserted]]

load(ps, table, ls, engine, t) ==
    IF ps = <<>> THEN [rows |-> table, loaded |-> 0, stats |-> ls]
    ELSE LoadReturns(ls, insert_posts(ps, table, engine, t))

\* db.query("SELECT id FROM posts WHERE post_id = ? AND platform = ?")
Existing(table, post) ==
    {i \in 1..Len(table) :
        table[i].post_id = post.post_id /\ table[i].platform = post.platform}

RECURSIVE ValidationLoop(_, _, _, _, _, _)

\* The try statement of load_with_validation: r is what insert_posts([post])
\* did.
ValidatedInsert(ps, i, results, engine, t, r) ==
    IF r.exc = "none"
    THEN ValidationLoop(ps, i + 1, r.rows,
                        [results EXCEPT !.success = Append(@, ps[i].post_id.s)], engine, t)
    ELSE ValidationLoop(ps, i + 1, r.rows,
                        [results EXCEPT
                            !.errors = Append(@, [post_id |-> ps[i].post_id.s, error |-> r.exc])],
                        engine, t)

\* The for loop of load_with_validation from the i-th post on.
ValidationLoop(ps, i, table, results, engine, t) ==
    IF i > Len(ps) THEN [rows |-> table, results |-> results]
    ELSE IF ~Truthy(PostGet(ps[i], "post_id", None)) \/ ~Truthy(PostGet(ps[i], "platform", None))
    THEN ValidationLoop(ps, i + 1, table,
                        [results EXCEPT
                            !.errors = Append(@, [post |-> ps[i],
                                                  error |-> "Missing required fields"])],
                        engine, t)
    ELSE IF Existing(table, ps[i]) # {}
    THEN ValidationLoop(ps, i + 1, table,
                        [results EXCEPT !.duplicates = Append(@, ps[i].post_id.s)], engine, t)
    ELSE ValidatedInsert(ps, i, results, engine, t, insert_posts(<<ps[i]>>, table, engine, t))

load_with_validation(ps, table, engine, t) ==
    ValidationLoop(ps, 1, table, [success |-> <<>>, errors |-> <<>>, duplicates |-> <<>>],
                   engine, t)

(***************************************************************************)
(* The Transformer as a state machine.                                     *)
(***************************************************************************)
\* Transformer.__init__
NewStats ==
    [processed |-> 0, errors |-> 0,
     sentiment |-> [positive |-> 0, negative |-> 0, neutral |-> 0]]

TransformerInit ==
    /\ stats = NewStats
    /\ stats0 = NewStats
    /\ posts = <<>>
    /\ transformed = <<>>
    /\ raised = FALSE
    /\ now = 0
    /\ handed = 0

\* No pure function is under test.
PureIdle == fn = "none" /\ arg = <<>> /\ ret = <<>> /\ pc = "idle"

\* Database.__init__ on a new file: the schema is created, the table is empty.
DatabaseInit == rows = <<>> /\ rows0 = <<>>

\* Loader.__init__
LoaderInit == loader_stats = [loaded |-> 0, duplicates |-> 0, errors |-> 0]

\* ETLPipeline.__init__ with the default batch_size; run_streaming was not
\* called.
PipelineInit ==
    /\ source = <<>>
    /\ taken = 0
    /\ batch_size = DefaultBatchSize
    /\ buffer = <<>>
    /\ pending = <<>>
    /\ yielded = <<>>
    /\ fed = <<>>
    /\ to_loader = <<>>
    /\ gen = "idle"

\* No generator of run_streaming takes a step.
PipelineIdle ==
    UNCHANGED <<source, taken, batch_size, buffer, pending, yielded, fed, to_loader, gen>>

\* Neither the Database nor the Loader takes a step.
StoreIdle == UNCHANGED <<rows, rows0, loader_stats, assigns_id>> /\ PipelineIdle

Init ==
    /\ TransformerInit /\ PureIdle /\ DatabaseInit /\ LoaderInit /\ PipelineInit
    /\ assigns_id = TRUE

\* The effect of a call transformer.transform(batch) whose outcome is r:
\* posts is the batch as it was handed over, arg the list after the call.
TransformReturns(batch, r) ==
    /\ stats' = r.stats
    /\ stats0' = stats
    /\ posts' = batch
    /\ arg' = r.posts
    /\ transformed' = r.transformed
    /\ raised' = r.raised

\* One call transformer.transform(batch); a run hands over at most
\* MaxRecords raw records in at most MaxCalls calls.
Transform ==
    /\ now < MaxCalls
    /\ \E batch \in Batches(MaxRecords - handed) :
          /\ TransformReturns(batch, transform(batch, stats, now))
          /\ handed' = handed + Len(batch)
    /\ now' = now + 1
    /\ UNCHANGED <<fn, ret, pc>>
    /\ StoreIdle

\* One call transformer.transform(transformed): the records the last call
\* emitted are handed to the transform again.
Retransform ==
    /\ now < MaxCalls
    /\ transformed # <<>>
    /\ TransformReturns(transformed, transform(transformed, stats, now))
    /\ now' = now + 1
    /\ UNCHANGED <<handed, fn, ret, pc>>
    /\ StoreIdle

Next == Transform \/ Retransform

Spec == Init /\ [][Next]_vars

(***************************************************************************)
(* The Database and the Loader as a state machine.                         *)
(***************************************************************************)
\* A string no format reads.
iso_feb == <<"2", "0", "2", "4", "-", "0", "2", "-", "2", "9", " ", "2", "3", ":", "5", "9", ":", "0", "0", "Z">>

\* Two posts with the key (a, reddit) that differ in every other column.
PostA1 ==
    [post_id |-> StrV(<<"a">>), platform |-> StrV(reddit), post_text |-> StrV(<<"x">>),
     author |-> StrV(<<"u", "1">>), likes |-> IntV(1), comments |-> IntV(2),
     timestamp |-> StrV(iso_jan), scraped_at |-> StrV(iso_jan),
     sentiment_label |-> "positive", engagement_level |-> "low"]

PostA2 ==
    [post_id |-> StrV(<<"a">>), platform |-> StrV(reddit), post_text |-> StrV(<<"y">>),
     author |-> StrV(<<"u", "2">>), likes |-> IntV(5), comments |-> StrV(<<"7">>),
     timestamp |-> StrV(iso_feb), scraped_at |-> StrV(yesterday),
     sentiment_label |-> "negative", engagement_level |-> "high"]

\* The same post_id on another platform, with a timestamp that is no date.
PostATwitter ==
    [post_id |-> StrV(<<"a">>), platform |-> StrV(twitter), likes |-> IntV(9),
     timestamp |-> StrV(yesterday)]

\* No platform: the NOT NULL constraint rejects the row.
PostNoPlatform == [post_id |-> StrV(<<"c">>), likes |-> IntV(3)]

\* A counter int() cannot read: the row is never sent to the engine.
PostBadLikes ==
    [post_id |-> StrV(<<"d">>), platform |-> StrV(reddit), likes |-> StrV(<<"a", "b", "c">>)]

StoredPosts == {PostA1, PostA2, PostATwitter, PostNoPlatform, PostBadLikes}

\* The lists of at most n posts.
PostBatches(n) == UNION {[1..k -> StoredPosts] : k \in 0..n}

InitStore ==
    /\ TransformerInit /\ PureIdle /\ DatabaseInit /\ LoaderInit /\ PipelineInit
    /\ assigns_id \in BOOLEAN

\* The effect of a call f(batch) on the Database and the Loader: it leaves
\* the table, the statistics ls and the value returned.
StoreReturns(f, batch, table, ls, returned) ==
    /\ fn' = f
    /\ posts' = batch
    /\ rows0' = rows
    /\ rows' = table
    /\ loader_stats' = ls
    /\ ret' = returned
    /\ handed' = IF f = "reload" THEN handed ELSE handed + Len(batch)
    /\ now' = now + 1
    /\ UNCHANGED <<stats, stats0, transformed, raised, arg, pc, assigns_id>>
    /\ PipelineIdle

InsertPostsReturns(batch, r) ==
    StoreReturns("insert_posts", batch, r.rows, loader_stats, r.inserted)

\* One call db.insert_posts(batch).
InsertPosts ==
    /\ now < MaxCalls
    /\ \E batch \in PostBatches(MaxPosts - handed) :
          InsertPostsReturns(batch, insert_posts(batch, rows, assigns_id, now))

LoaderLoadReturns(batch, r) == StoreReturns("load", batch, r.rows, r.stats, r.loaded)

\* One call loader.load(batch).
LoaderLoad ==
    /\ now < MaxCalls
    /\ \E batch \in PostBatches(MaxPosts - handed) :
          LoaderLoadReturns(batch, load(batch, rows, loader_stats, assigns_id, now))

LoadWithValidationReturns(batch, r) ==
    StoreReturns("load_with_validation", batch, r.rows, loader_stats, r.results)

\* One call loader.load_with_validation(batch).
LoadWithValidation ==
    /\ now < MaxCalls
    /\ \E batch \in PostBatches(MaxPosts - handed) :
          LoadWithValidationReturns(batch, load_with_validation(batch, rows, assigns_id, now))

ReloadReturns(r) == StoreReturns("reload", posts, r.rows, r.stats, r.loaded)

\* The batch of the last call is loaded again: loader.load(posts).
Reload ==
    /\ now < MaxCalls
    /\ fn # "none"
    /\ posts # <<>>
    /\ ReloadReturns(load(posts, rows, loader_stats, assigns_id, now))

NextStore == InsertPosts \/ LoaderLoad \/ LoadWithValidation \/ Reload

SpecStore == InitStore /\ [][NextStore]_vars

(***************************************************************************)
(* ETLPipeline.run and ETLPipeline.run_streaming                           *)
(***************************************************************************)
\* loader.load(transformed) after r = transformer.transform(b).
Loaded(r, l) ==
    [stats |-> r.stats, transformed |-> r.transformed, raised |-> r.raised,
     rows |-> l.rows, loader_stats |-> l.stats, loaded_count |-> l.loaded]

\* transformed = self.transformer.transform(b); self.loader.load(transformed)
TransformAndLoad(r, table, ls, engine, t) ==
    IF r.raised
    THEN Loaded(r, [rows |-> table, stats |-> ls, loaded |-> 0])
    ELSE Loaded(r, load(r.transformed, table, ls, engine, t))

Process(b, st, table, ls, engine, t) ==
    TransformAndLoad(transform(b, st, t), table, ls, engine, t)

\* A bug: the summary counts the emitted records as its input.
ResultsOfEmitted(ps, r) ==
    [input_count |-> Len(r.transformed), transformed_count |-> Len(r.transformed),
     loaded_count |-> r.loaded_count, transform_stats |-> r.stats,
     loader_stats |-> r.loader_stats]

\* The dict results of run, without the two figures read off the wall clock
\* (duration_seconds, records_per_second).
Results(ps, r) ==
    [input_count |-> Len(ps), transformed_count |-> Len(r.transformed),
     loaded_count |-> r.loaded_count, transform_stats |-> r.stats,
     loader_stats |-> r.loader_stats]

\* The raw records handed to the pipeline.
PipelineRecords == {RawGood, RawNoId, RawNoPlatform, RawIntText}

Sources(n) == UNION {[1..k -> PipelineRecords] : k \in 0..n}

InitPipeline ==
    /\ TransformerInit /\ PureIdle /\ DatabaseInit /\ LoaderInit /\ PipelineInit
    /\ assigns_id \in BOOLEAN

\* No generator of run_streaming is between its first and its last step.
NotStreaming == gen \in {"idle", "done", "closed", "failed"}

\* The effect of pipeline.run(ps), r being what transform and load did.
RunReturns(ps, r) ==
    /\ fn' = "run"
    /\ posts' = ps
    /\ stats0' = stats
    /\ stats' = r.stats
    /\ transformed' = r.transformed
    /\ raised' = r.raised
    /\ rows0' = rows
    /\ rows' = r.rows
    /\ loader_stats' = r.loader_stats
    /\ ret' = IF r.raised THEN <<>> ELSE Results(ps, r)
    /\ handed' = handed + Len(ps)
    /\ now' = now + 1
    /\ UNCHANGED <<arg, pc, assigns_id>>
    /\ PipelineIdle

\* One call pipeline.run(ps).
Run ==
    /\ now < MaxCalls
    /\ NotStreaming
    /\ \E ps \in Sources(MaxRecords - handed) :
          RunReturns(ps, Process(ps, stats, rows, loader_stats, assigns_id, now))

\* pipeline.run_streaming(src) with config['batch_size'] = size: the
\* generator is created, none of its code has run.
StartStreaming ==
    /\ now < MaxCalls
    /\ gen = "idle"
    /\ \E src \in Sources(MaxRecords - handed), size \in 1..MaxBatchSize :
          /\ source' = src
          /\ batch_size' = size
          /\ handed' = handed + Len(src)
    /\ fn' = "run_streaming"
    /\ gen' = "take"
    /\ taken' = 0
    /\ buffer' = <<>>
    /\ pending' = <<>>
    /\ yielded' = <<>>
    /\ fed' = <<>>
    /\ to_loader' = <<>>
    /\ UNCHANGED <<stats, stats0, posts, transformed, raised, now, arg, ret, pc,
                   rows, rows0, loader_stats, assigns_id>>

\* A bug: a batch is processed only when it has outgrown batch_size.
BatchOverfull(b, size) == Len(b) > size

\* len(batch) >= batch_size
BatchFull(b, size) == Len(b) >= size

\* A bug: the records left in the batch at the end of the source are not
\* processed.
RemainingDropped(b) == FALSE

\* if batch: (after the loop)
Remaining(b) == b # <<>>

\* The generator is about to take the next record of the source: it was
\* just created, it appended a record to a batch that is not full, or it is
\* resumed at the yield of the last record of a batch.
AtPull == gen = "take" \/ (gen = "at_yield" /\ pending = <<>>)

\* The list batch when the next record is taken: resumed at the last yield
\* of a batch, the generator first runs batch = [].
Batch == IF gen = "at_yield" THEN <<>> ELSE buffer

\* The batch b was transformed and loaded (r) in the loop (at = "at_yield")
\* or after it (at = "at_flush"); the generator runs on to its next yield,
\* or, with nothing to yield, to the next record or to its end.
BatchProcessed(b, r, at) ==
    /\ posts' = b
    /\ stats0' = stats
    /\ stats' = r.stats
    /\ transformed' = r.transformed
    /\ raised' = r.raised
    /\ rows0' = rows
    /\ rows' = r.rows
    /\ loader_stats' = r.loader_stats
    /\ now' = now + 1
    /\ fed' = fed \o b
    /\ to_loader' = to_loader \o r.transformed
    /\ IF r.raised
       THEN gen' = "failed" /\ buffer' = b /\ pending' = <<>> /\ yielded' = yielded
       ELSE IF r.transformed = <<>>
       THEN /\ gen' = IF at = "at_yield" THEN "take" ELSE "done"
            /\ buffer' = IF at = "at_yield" THEN <<>> ELSE b
            /\ pending' = <<>>
            /\ yielded' = yielded
       ELSE /\ gen' = at
            /\ buffer' = b
            /\ pending' = Tail(r.transformed)
            /\ yielded' = Append(yielded, Head(r.transformed))

\* batch.append(post) gave b.
Appended(b) ==
    IF BatchFull(b, batch_size)
    THEN BatchProcessed(b, Process(b, stats, rows, loader_stats, assigns_id, now), "at_yield")
    ELSE /\ buffer' = b
         /\ gen' = "take"
         /\ pending' = <<>>
         /\ UNCHANGED <<stats, stats0, posts, transformed, raised, rows, rows0, loader_stats,
                        now, fed, to_loader, yielded>>

\* for post in posts_generator: the source yields its next record.
TakeRecord ==
    /\ AtPull
    /\ taken < Len(source)
    /\ taken' = taken + 1
    /\ Appended(Append(Batch, source[taken + 1]))
    /\ UNCHANGED <<source, batch_size, handed, fn, arg, ret, pc, assigns_id>>

\* The batch b is left when the source is exhausted.
Flushed(b) ==
    IF Remaining(b)
    THEN BatchProcessed(b, Process(b, stats, rows, loader_stats, assigns_id, now), "at_flush")
    ELSE /\ buffer' = b
         /\ gen' = "done"
         /\ pending' = <<>>
         /\ UNCHANGED <<stats, stats0, posts, transformed, raised, rows, rows0, loader_stats,
                        now, fed, to_loader, yielded>>

\* for post in posts_generator: the source is exhausted, the loop ends.
SourceExhausted ==
    /\ AtPull
    /\ taken = Len(source)
    /\ Flushed(Batch)
    /\ UNCHANGED <<source, taken, batch_size, handed, fn, arg, ret, pc, assigns_id>>

\* for post in posts_generator: the source raises; run_streaming has no
\* handler, the exception leaves the generator and ends it.
SourceRaises ==
    /\ AtPull
    /\ gen' = "failed"
    /\ buffer' = Batch
    /\ UNCHANGED <<stats, stats0, posts, transformed, raised, now, handed, fn, arg, ret, pc,
                   rows, rows0, loader_stats, assigns_id, source, taken, batch_size,
                   pending, yielded, fed, to_loader>>

\* for t in transformed: yield t, resumed by the consumer with records of
\* the batch left.
YieldNext ==
    /\ gen \in {"at_yield", "at_flush"}
    /\ pending # <<>>
    /\ yielded' = Append(yielded, Head(pending))
    /\ pending' = Tail(pending)
    /\ UNCHANGED <<stats, stats0, posts, transformed, raised, now, handed, fn, arg, ret, pc,
                   rows, rows0, loader_stats, assigns_id, source, taken, batch_size,
                   buffer, fed, to_loader, gen>>

\* Resumed at the last yield of the last batch, the generator returns.
Finish ==
    /\ gen = "at_flush"
    /\ pending = <<>>
    /\ gen' = "done"
    /\ UNCHANGED <<stats, stats0, posts, transformed, raised, now, handed, fn, arg, ret, pc,
                   rows, rows0, loader_stats, assigns_id, source, taken, batch_size,
                   buffer, pending, yielded, fed, to_loader>>

\* The consumer stops iterating: the generator, suspended at a yield, is
\* closed (GeneratorExit is raised at the yield, no handler, no finally).
ConsumerStops ==
    /\ gen \in {"at_yield", "at_flush"}
    /\ gen' = "closed"
    /\ UNCHANGED <<stats, stats0, posts, transformed, raised, now, handed, fn, arg, ret, pc,
                   rows, rows0, loader_stats, assigns_id, source, taken, batch_size,
                   buffer, pending, yielded, fed, to_loader>>

NextPipeline ==
    \/ Run
    \/ StartStreaming
    \/ TakeRecord
    \/ SourceExhausted
    \/ SourceRaises
    \/ YieldNext
    \/ Finish
    \/ ConsumerStops

SpecPipeline == InitPipeline /\ [][NextPipeline]_vars

(***************************************************************************)
(* The pure functions, each applied to inputs drawn from a bounded set.    *)
(***************************************************************************)
RECURSIVE Concat(_)
Concat(chunks) == IF chunks = <<>> THEN <<>> ELSE chunks[1] \o Concat(Tail(chunks))

\* The texts made of at most n chunks.
Texts(chunks, n) == {Concat(c) : c \in UNION {[1..k -> chunks] : k \in 0..n}}

\* A pure function f is about to be applied to an input of the set inputs.
PureInit(f, inputs) ==
    /\ TransformerInit /\ DatabaseInit /\ LoaderInit /\ PipelineInit /\ assigns_id = TRUE
    /\ fn = f
    /\ arg \in inputs
    /\ ret = <<>>
    /\ pc = "call"

TransformerIdle ==
    UNCHANGED <<stats, stats0, posts, transformed, raised, now, handed>> /\ StoreIdle

\* ---- _clean_text and TextProcessor.clean, applied twice in a row ----
CleanChunks ==
    {<<"&">>, <<"a", "m", "p", ";">>, <<"&", "a", "m", "p", ";">>, <<"l", "t", ";">>,
     <<" ">>, <<"a">>, <<"U2014">>, <<"U00A0">>, <<"U00A9">>, <<"U200B">>}

InitClean ==
    \/ PureInit("_clean_text", Texts(CleanChunks, MaxChunks))
    \/ PureInit("TextProcessor.clean", Texts(CleanChunks, MaxChunks))

\* ret is the list of the successive results: ret[1] = clean(arg),
\* ret[2] = clean(ret[1]).
CleanText ==
    /\ fn = "_clean_text"
    /\ Len(ret) < 2
    /\ ret' = Append(ret, _clean_text(StrV(IF ret = <<>> THEN arg ELSE ret[Len(ret)])).v.s)
    /\ pc' = "done"
    /\ UNCHANGED <<fn, arg>>
    /\ TransformerIdle

TextProcessorClean ==
    /\ fn = "TextProcessor.clean"
    /\ Len(ret) < 2
    /\ ret' = Append(ret, TextProcessor_clean(StrV(IF ret = <<>> THEN arg ELSE ret[Len(ret)])).v.s)
    /\ pc' = "done"
    /\ UNCHANGED <<fn, arg>>
    /\ TransformerIdle

NextClean == CleanText \/ TextProcessorClean

SpecClean == InitClean /\ [][NextClean]_vars

\* ---- TextProcessor.remove_hashtags ----
HashtagChunks == {<<"#">>, <<"a">>, <<" ">>, <<"#", "a", " ">>, <<".">>, <<"#", "b", "_">>}

InitHashtags == PureInit("remove_hashtags", Texts(HashtagChunks, MaxChunks))

RemoveHashtags ==
    /\ fn = "remove_hashtags"
    /\ pc = "call"
    /\ ret' = remove_hashtags(arg)
    /\ pc' = "done"
    /\ UNCHANGED <<fn, arg>>
    /\ TransformerIdle

NextHashtags == RemoveHashtags

SpecHashtags == InitHashtags /\ [][NextHashtags]_vars

\* ---- Transformer._normalize_hashtags, applied twice in a row ----
TagChunks == {<<",">>, <<" ">>, <<"a">>, <<"A", "b">>, <<"#", "a", "b">>, <<"a", "b">>, <<"B", " ", "c">>, <<"\t">>}

InitTags == PureInit("_normalize_hashtags", Texts(TagChunks, MaxChunks))

\* ret[1] = _normalize_hashtags(arg), ret[2] = _normalize_hashtags(ret[1]).
NormalizeHashtags ==
    /\ fn = "_normalize_hashtags"
    /\ Len(ret) < 2
    /\ ret' = Append(ret, _normalize_hashtags(StrV(IF ret = <<>> THEN arg ELSE ret[Len(ret)])).v.s)
    /\ pc' = "done"
    /\ UNCHANGED <<fn, arg>>
    /\ TransformerIdle

NextTags == NormalizeHashtags

SpecTags == InitTags /\ [][NextTags]_vars

\* ---- TextProcessor.prepare_for_sentiment ----
PrepareChunks ==
    {<<"#">>, <<"a">>, <<" ">>, <<"@">>, <<"#", "a", " ">>, <<"h", "t", "t", "p">>,
     <<":", "/", "/", "x">>, <<"U2764">>}

PrepareInputs ==
    {[text |-> t, include_emojis |-> e] : t \in Texts(PrepareChunks, MaxChunks), e \in BOOLEAN}

InitPrepare == PureInit("prepare_for_sentiment", PrepareInputs)

PrepareForSentiment ==
    /\ fn = "prepare_for_sentiment"
    /\ pc = "call"
    /\ ret' = prepare_for_sentiment(arg.text, arg.include_emojis)
    /\ pc' = "done"
    /\ UNCHANGED <<fn, arg>>
    /\ TransformerIdle

NextPrepare == PrepareForSentiment

SpecPrepare == InitPrepare /\ [][NextPrepare]_vars

\* ---- RetryHandler.retry and RetryHandler.async_retry ----
\* isinstance(exc, exceptions): every class of the model derives from
\* Exception.
Caught(exc, exceptions) == exc \in exceptions \/ "Exception" \in exceptions

\* A mistake: one more round than max_attempts allows.
MoreAttemptsOffByOne(attempt, max_attempts) == attempt < max_attempts

\* "attempt < max_attempts - 1": another attempt follows this one.
MoreAttempts(attempt, max_attempts) == attempt < max_attempts - 1

RECURSIVE Pow2(_)
\* 2 ** k
Pow2(k) == IF k = 0 THEN 1 ELSE 2 * Pow2(k - 1)

\* What one call of the wrapped function does: it returns a value or raises.
FuncOutcomes == {Ok(IntV(1)), Raise("ValueError"), Raise("KeyError"), Raise("OSError")}

RetryInputs ==
    {[max_attempts |-> n, base_delay |-> d, exceptions |-> e] :
        n \in 0..MaxAttempts, d \in 1..2,
        e \in {{"ValueError"}, {"ValueError", "KeyError"}, {"Exception"}}}

\* The wrapper returned by the decorator is about to be called.
InitRetry ==
    \/ PureInit("retry", RetryInputs)
    \/ PureInit("async_retry", RetryInputs)

\* The wrapper is entered: last_exception = None, and the loop starts unless
\* range(max_attempts) is empty. ret records the calls of the wrapped
\* function and the sleeps so far.
WrapperCalled ==
    /\ fn \in {"retry", "async_retry"}
    /\ pc = "call"
    /\ ret' = [attempt |-> 0, calls |-> <<>>, sleeps |-> <<>>, last_exception |-> "none", outcome |-> Ok(None)]
    /\ pc' = IF arg.max_attempts > 0 THEN "try" ELSE "raise"
    /\ UNCHANGED <<fn, arg>>
    /\ TransformerIdle

\* One round of the loop: the function is called; its value is returned, an
\* exception outside exceptions propagates, a caught one is kept.
Attempted(r, o, a) ==
    IF o.exc = "none" THEN [r EXCEPT !.calls = Append(@, o), !.outcome = o]
    ELSE IF ~Caught(o.exc, a.exceptions) THEN [r EXCEPT !.calls = Append(@, o), !.outcome = o]
    ELSE [r EXCEPT !.calls = Append(@, o), !.last_exception = o.exc]

CallFunc ==
    /\ fn \in {"retry", "async_retry"}
    /\ pc = "try"
    /\ \E o \in FuncOutcomes :
        /\ ret' = Attempted(ret, o, arg)
        /\ pc' = IF o.exc = "none" \/ ~Caught(o.exc, arg.exceptions) THEN "done"
                 ELSE IF MoreAttempts(ret.attempt, arg.max_attempts) THEN "sleep"
                 ELSE "raise"
    /\ UNCHANGED <<fn, arg>>
    /\ TransformerIdle

\* time.sleep(delay), or await asyncio.sleep(delay), then the next round.
Sleep ==
    /\ fn \in {"retry", "async_retry"}
    /\ pc = "sleep"
    /\ ret' = [ret EXCEPT !.sleeps = Append(@, arg.base_delay * Pow2(ret.attempt)), !.attempt = @ + 1]
    /\ pc' = IF ret.attempt + 1 < arg.max_attempts THEN "try" ELSE "raise"
    /\ UNCHANGED <<fn, arg>>
    /\ TransformerIdle

\* "raise last_exception" after the loop; raising None is a TypeError.
RaiseLast ==
    /\ fn \in {"retry", "async_retry"}
    /\ pc = "raise"
    /\ ret' = [ret EXCEPT !.outcome = Raise(IF ret.last_exception = "none" THEN "TypeError" ELSE ret.last_exception)]
    /\ pc' = "done"
    /\ UNCHANGED <<fn, arg>>
    /\ TransformerIdle

NextRetry == WrapperCalled \/ CallFunc \/ Sleep \/ RaiseLast

SpecRetry == InitRetry /\ [][NextRetry]_vars

\* ---- Transformer._safe_int ----
NumberChunks ==
    {<<"1">>, <<"2">>, <<",">>, <<"a">>, <<"i", "n", "f">>, <<"-">>, <<"+">>, <<".">>,
     <<" ">>, <<"n", "a", "n">>}

SafeIntInputs ==
    {StrV(s) : s \in Texts(NumberChunks, MaxChunks)}
    \cup {StrV(<<"1", ",", "2", "3", "4">>), StrV(<<"a", "b", "c">>),
          None, List, BoolV(TRUE), BoolV(FALSE), IntV(0), IntV(-5), IntV(1234)}

InitSafeInt == PureInit("_safe_int", SafeIntInputs)

SafeInt ==
    /\ fn = "_safe_int"
    /\ pc = "call"
    /\ ret' = _safe_int(arg)
    /\ pc' = "done"
    /\ UNCHANGED <<fn, arg>>
    /\ TransformerIdle

NextSafeInt == SafeInt

SpecSafeInt == InitSafeInt /\ [][NextSafeInt]_vars

\* ---- Transformer._analyze_sentiment ----
SentimentChunks ==
    {<<"l", "o", "v", "e">>, <<"g", "o", "o", "d">>, <<"b", "a", "d">>, <<"s", "k", "y">>,
     <<" ">>, <<"U1F60A">>, <<"U1F622">>, <<"U1F92E">>, <<"U2764", "UFE0F">>, <<"L">>}

InitSentiment == PureInit("_analyze_sentiment", Texts(SentimentChunks, MaxChunks))

AnalyzeSentiment ==
    /\ fn = "_analyze_sentiment"
    /\ pc = "call"
    /\ ret' = _analyze_sentiment(arg)
    /\ pc' = "done"
    /\ UNCHANGED <<fn, arg>>
    /\ TransformerIdle

NextSentiment == AnalyzeSentiment

SpecSentiment == InitSentiment /\ [][NextSentiment]_vars

\* ---- Transformer._calculate_engagement ----
tiktok == <<"t", "i", "k", "t", "o", "k">>

\* Scores at, just below and just above every threshold of every table.
EngagementLikes ==
    UNION {{th - 7, th - 6, th - 4, th - 3, th - 1, th, th + 1} :
           th \in {100, 500, 1000, 5000, 10000, 50000, 100000}} \cup {0, 7}

EngagementInputs ==
    [likes : EngagementLikes, comments : 0..MaxComments,
     platform : {StrV(instagram), StrV(youtube), StrV(twitter), StrV(reddit),
                 StrV(tiktok), StrV(unknown), None}]

InitEngagement == PureInit("_calculate_engagement", EngagementInputs)

CalculateEngagement ==
    /\ fn = "_calculate_engagement"
    /\ pc = "call"
    /\ ret' = _calculate_engagement(arg.likes, arg.comments, arg.platform)
    /\ pc' = "done"
    /\ UNCHANGED <<fn, arg>>
    /\ TransformerIdle

NextEngagement == CalculateEngagement

SpecEngagement == InitEngagement /\ [][NextEngagement]_vars

\* ---- DataLabeler.estimate_engagement_level ----
InitLabeler == PureInit("estimate_engagement_level", EngagementInputs)

EstimateEngagementLevel ==
    /\ fn = "estimate_engagement_level"
    /\ pc = "call"
    /\ ret' = estimate_engagement_level(arg.likes, arg.comments, arg.platform)
    /\ pc' = "done"
    /\ UNCHANGED <<fn, arg>>
    /\ TransformerIdle

NextLabeler == EstimateEngagementLevel

SpecLabeler == InitLabeler /\ [][NextLabeler]_vars

\* ---- Transformer._normalize_timestamp ----
TimestampDates ==
    {<<"2", "0", "2", "4", "-", "0", "1", "-", "0", "5">>,
     <<"2", "0", "2", "4", "-", "1", "-", "5">>,
     <<"2", "0", "2", "3", "-", "0", "2", "-", "2", "9">>,
     <<"2", "0", "2", "4", "-", "0", "2", "-", "2", "9">>,
     <<"0", "0", "0", "0", "-", "0", "1", "-", "0", "5">>,
     <<"2", "0", "2", "4", "-", "1", "3", "-", "0", "5">>,
     <<"2", "0", "2", "4", "-", "0", "1", "-", " ", "5">>,
     <<"2", "0", "2", "4", "-", "0", "4", "-", "3", "1">>}

TimestampSeparators == {<<"T">>, <<"t">>, <<" ">>, <<" ", "\t">>, <<"-">>}

TimestampTimes ==
    {<<"1", "0", ":", "2", "0", ":", "3", "0">>, <<"3", ":", "4", ":", "5">>,
     <<"2", "4", ":", "0", "0", ":", "0", "0">>,
     <<"1", "0", ":", "2", "0", ":", "6", "0">>,
     <<"2", "3", ":", "5", "9", ":", "0", "0">>}

TimestampZones ==
    {<<>>, <<"Z">>, <<"z">>, <<".", "5", "Z">>,
     <<".", "0", "0", "0", "0", "0", "0", "Z">>,
     <<".", "1", "2", "3", "4", "5", "6", "7", "Z">>, <<"+", "0", "5", "3", "0">>,
     <<"+", "0", "5", ":", "3", "0">>, <<"-", "0", "0", ":", "0", "0">>,
     <<"-", "0", "8", "0", "0">>,
     <<".", "1", "2", "3", "4", "5", "6", "+", "0", "0", ":", "0", "0">>,
     <<"+", "0", "5", ":", "3", "0", ":", "1", "5">>,
     <<"+", "0", "5", "3", "0", "1", "5">>, <<"+", "0", "5", ":", "3", "0", "1", "5">>,
     <<"+", "0", "5", "3", "0", ":", "1", "5">>, <<"+", "2", "5", "0", "0">>,
     <<"+", "0", "5", "6", "0">>, <<".", "5">>, <<" ">>,
     <<".", "5", "-", "0", "1", ":", "0", "0", ":", "0", "0", ".", "2", "5">>}

TimestampInputs ==
    {StrV(d \o sep \o tm \o z) : d \in TimestampDates, sep \in TimestampSeparators,
                                 tm \in TimestampTimes, z \in TimestampZones}
    \cup {StrV(d) : d \in TimestampDates}
    \cup {StrV(yesterday), StrV(<<>>), None, List, IntV(0), IntV(1700000000), BoolV(TRUE),
          DateTimeV([NoFields EXCEPT !.year = 2024, !.day = 5, !.hour = 10, !.second = 30]),
          DateTimeV([NoFields EXCEPT !.year = 987, !.month = 12, !.microsecond = 500,
                                     !.tz = [aware |-> TRUE, neg |-> TRUE, s |-> 19800, us |-> 0]])}

InitTimestamp == PureInit("_normalize_timestamp", TimestampInputs)

NormalizeTimestamp ==
    /\ fn = "_normalize_timestamp"
    /\ pc = "call"
    /\ ret' = _normalize_timestamp(arg)
    /\ pc' = "done"
    /\ UNCHANGED <<fn, arg>>
    /\ TransformerIdle

NextTimestamp == NormalizeTimestamp

SpecTimestamp == InitTimestamp /\ [][NextTimestamp]_vars

(***************************************************************************)
(* Properties.                                                             *)
(***************************************************************************)
\* The raw record has no post_id, or an empty one.
MissingPostId(p) == p.post_id.t \in {"absent", "none"} \/ p.post_id = StrV(<<>>)

\* What _transform_single does with one raw record (the outcome depends
\* neither on the statistics nor on the clock).
Outcome(p) == _transform_single(p, NewStats, 0)

Raising(ps) == {i \in 1..Len(ps) : Outcome(ps[i]).returned = "raise"}

Missing(ps) == {i \in 1..Len(ps) : MissingPostId(ps[i])}

RECURSIVE EmittedOf(_, _)
\* The results of the records of ps that normalise to a result, in order,
\* stamped at clock time t.
EmittedOf(ps, t) ==
    IF ps = <<>> THEN <<>>
    ELSE IF Outcome(ps[1]).returned = "dict"
         THEN <<_transform_single(ps[1], NewStats, t).result>> \o EmittedOf(Tail(ps), t)
         ELSE EmittedOf(Tail(ps), t)

(* C1: in every batch, each raw record whose post_id is absent or empty is
   left out of the output and adds exactly one to stats.errors, and no
   exception leaves transform (so a batch of records that do not raise
   yields Len(posts) - missing records and missing more errors). *)
C1_MissingPostIdCountsAsError ==
    /\ ~raised
    /\ \A j \in 1..Len(transformed) : ~MissingPostId(transformed[j])
    /\ Raising(posts) = {} =>
          /\ stats.errors = stats0.errors + Cardinality(Missing(posts))
          /\ Len(transformed) = Len(posts) - Cardinality(Missing(posts))

(* C2: transform never aborts a batch because of one record: a record
   whose normalisation raises is left out of the output and adds exactly
   one to stats.errors, and the output is the list of the results of all
   the other valid records, the later ones included, in order. *)
C2_OneRecordNeverAbortsTheBatch ==
    /\ ~raised
    /\ stats.errors = stats0.errors + Cardinality(Raising(posts))
    /\ transformed = EmittedOf(posts, now - 1)

\* A batch in which a record raised and a later record was emitted.
C2_RaisingRecordThenEmitted ==
    /\ \E i, k \in 1..Len(posts) :
          /\ i < k
          /\ Outcome(posts[i]).returned = "raise"
          /\ Outcome(posts[k]).returned = "dict"
    /\ stats.errors = stats0.errors + 1
    /\ Len(transformed) >= 1

(* C3 as stated: every emitted record has a non-empty post_id and a
   non-empty platform, and a raw record lacking either one is never
   emitted. *)
C3_EmittedHaveIdAndPlatform ==
    /\ \A j \in 1..Len(transformed) :
          /\ Truthy(transformed[j].post_id)
          /\ Truthy(transformed[j].platform)
    /\ Len(transformed) <=
          Cardinality({i \in 1..Len(posts) :
                          ~MissingPostId(posts[i]) /\ Truthy(Get(posts[i], "platform", None))})

(* C3 as amended: every emitted record has a non-empty post_id, and a raw
   record lacking a post_id is never emitted (the platform is not
   checked). *)
C3_EmittedHavePostId ==
    /\ \A j \in 1..Len(transformed) : Truthy(transformed[j].post_id)
    /\ Len(transformed) <= Len(posts) - Cardinality(Missing(posts))

\* A batch with a rejected record and a record emitted without a platform.
C3_EmittedWithoutPlatform ==
    /\ Missing(posts) # {}
    /\ \E j \in 1..Len(transformed) : transformed[j].platform.t = "absent"

NumericFields == {"likes", "comments", "retweet_count", "view_count", "upvote_ratio"}

(* C4: in every emitted record likes, comments, retweet_count, view_count
   and upvote_ratio are present and are non-negative numbers. *)
C4_NumericFieldsNonNegative ==
    \A j \in 1..Len(transformed) : \A f \in NumericFields :
        transformed[j][f].t = "int" /\ transformed[j][f].n >= 0

(* C5: every emitted record has a sentiment_label among positive, negative,
   neutral and an engagement_level among low, medium, high, viral. *)
C5_LabelsAlwaysSet ==
    \A j \in 1..Len(transformed) :
        /\ transformed[j].sentiment_label \in {"positive", "negative", "neutral"}
        /\ transformed[j].engagement_level \in {"low", "medium", "high", "viral"}

\* A batch that emitted a positive, high record and a negative, low one.
C5_TwoLabelledRecords ==
    \E j, k \in 1..Len(transformed) :
        /\ transformed[j].sentiment_label = "positive"
        /\ transformed[j].engagement_level = "high"
        /\ transformed[k].sentiment_label = "negative"
        /\ transformed[k].engagement_level = "low"

(* C6: _safe_int never raises: "1,234" gives 1234, and None, the empty
   string and every unparseable value give 0. *)
C6_SafeIntNeverRaises ==
    pc = "done" =>
        /\ ret.exc = "none"
        /\ arg = StrV(<<"1", ",", "2", "3", "4">>) => ret.v = IntV(1234)
        /\ arg \in {None, StrV(<<>>), StrV(<<"a", "b", "c">>)} => ret.v = IntV(0)

(* C7: text cleaning is idempotent, clean(clean(x)) = clean(x), for
   Transformer._clean_text and for TextProcessor.clean. *)
C7_CleanIdempotent == Len(ret) = 2 => ret[2] = ret[1]

(* C8: the output of remove_hashtags contains no hashtag, so it never has
   more hashtags than the input. *)
C8_NoHashtagAfterRemoval ==
    pc = "done" =>
        /\ extract_hashtags(ret) = <<>>
        /\ Len(extract_hashtags(ret)) <= Len(extract_hashtags(arg))

\* Number of occurrences in text of the glyphs of the set glyphs.
GlyphCount(text, glyphs) ==
    Cardinality({ig \in (1..Len(text)) \X glyphs : MatchAt(text, ig[1], ig[2])})

\* The counts as C9 defines them: distinct lexicon words present, plus the
\* emoji glyphs found.
ClaimedPositive(text) ==
    Cardinality(FindWords(str_lower(text), 1) \cap POSITIVE_WORDS)
    + GlyphCount(text, positive_emojis)

ClaimedNegative(text) ==
    Cardinality(FindWords(str_lower(text), 1) \cap NEGATIVE_WORDS)
    + GlyphCount(text, negative_emojis)

(* C9: the label is positive exactly when positive_count > negative_count,
   negative exactly when negative_count > positive_count and neutral on a
   tie, each count being the number of distinct lexicon words present plus
   the number of emoji glyphs found; the empty text is neutral. *)
C9_SentimentByCounts ==
    pc = "done" =>
        /\ ret = "positive" <=> ClaimedPositive(arg) > ClaimedNegative(arg)
        /\ ret = "negative" <=> ClaimedNegative(arg) > ClaimedPositive(arg)
        /\ ret = "neutral" <=> ClaimedPositive(arg) = ClaimedNegative(arg)
        /\ arg = <<>> => ret = "neutral"

(* C10: with score = likes + comments * W the tier is viral if
   score >= viral, else high if score >= high, else medium if
   score >= medium, else low, under the platform's thresholds; a platform
   that is not in the table is classified as twitter is. *)
C10_BoundaryInclusiveTiers ==
    pc = "done" =>
        LET score == arg.likes + arg.comments * CommentWeight
            known == arg.platform.t = "str"
                     /\ arg.platform.s \in {instagram, youtube, twitter, reddit}
            th == ENGAGEMENT_THRESHOLDS[IF known THEN arg.platform.s ELSE twitter]
        IN  /\ ret.exc = "none"
            /\ ret.v = "viral" <=> score >= th.viral
            /\ ret.v = "high" <=> th.high <= score /\ score < th.viral
            /\ ret.v = "medium" <=> th.medium <= score /\ score < th.high
            /\ ret.v = "low" <=> score < th.medium
            /\ ~known => ret = _calculate_engagement(arg.likes, arg.comments, StrV(twitter))
            /\ arg.likes = 0 /\ arg.comments = 0 => ret.v = "low"

\* A score that equals the medium threshold of the default table, for a
\* platform that is not in the table.
C10_UnknownPlatformAtThreshold ==
    /\ pc = "done"
    /\ arg.platform = StrV(tiktok)
    /\ arg.comments = 1
    /\ arg.likes + CommentWeight = ENGAGEMENT_THRESHOLDS[twitter].medium
    /\ ret.v = "medium"

\* The last call of transform was handed canonical records (the output of an
\* earlier call).
Retransformed ==
    /\ posts # <<>>
    /\ \A i \in 1..Len(posts) : "sentiment_label" \in DOMAIN posts[i]

(* C11: labels are stable under re-transformation: when a canonical record c
   emitted by transform is transformed again, the result has the same
   sentiment_label and the same engagement_level as c. *)
C11_LabelsStableUnderRetransform ==
    Retransformed =>
        /\ Len(transformed) = Len(posts)
        /\ \A i \in 1..Len(posts) :
              /\ transformed[i].sentiment_label = posts[i].sentiment_label
              /\ transformed[i].engagement_level = posts[i].engagement_level

(* C12: the statistics are cumulative across the calls on one Transformer:
   every call adds the number of records it emitted to stats.processed and
   the number of records it dropped to stats.errors, and no call resets or
   decreases a counter. *)
C12_StatsCumulative ==
    [][/\ stats'.processed = stats.processed + Len(transformed')
       /\ stats'.errors = stats.errors + (Len(posts') - Len(transformed'))
       /\ \A l \in {"positive", "negative", "neutral"} :
             stats'.sentiment[l] >= stats.sentiment[l]]_vars

\* The k-th format parses the string s.
Parses(s, k) == strptime(s, formats[k]).ok

(* C20: _normalize_timestamp returns a string that no known format parses
   unchanged (not null), serialises a datetime value to ISO-8601, and
   returns a string that a known format parses as the ISO-8601
   serialisation of what the first such format reads. *)
C20_TimestampNormalization ==
    pc = "done" =>
        /\ arg.t = "datetime" => ret = StrV(isoformat(arg.dt))
        /\ arg.t = "str" /\ arg.s # <<>> =>
              /\ ret.t = "str"
              /\ (\A k \in 1..Len(formats) : ~Parses(arg.s, k)) => ret = arg
              /\ \A k \in 1..Len(formats) :
                    Parses(arg.s, k) /\ (\A h \in 1..(k - 1) : ~Parses(arg.s, h))
                        => ret = StrV(isoformat(strptime(arg.s, formats[k]).dt))
        /\ arg = StrV(yesterday) => ret = StrV(yesterday)
        /\ arg = StrV(<<"2", "0", "2", "4", "-", "0", "1", "-", "0", "5", "T", "1", "0", ":", "2", "0", ":", "3", "0", "Z">>)
              => ret = StrV(<<"2", "0", "2", "4", "-", "0", "1", "-", "0", "5", "T", "1", "0", ":", "2", "0", ":", "3", "0">>)
        /\ arg = StrV(<<"2", "0", "2", "4", "-", "1", "-", "5", " ", "3", ":", "4", ":", "5">>)
              => ret = StrV(<<"2", "0", "2", "4", "-", "0", "1", "-", "0", "5", "T", "0", "3", ":", "0", "4", ":", "0", "5">>)

\* A string that the third format is the first to parse was rewritten; its
\* offset is kept.
C20_ParsedByThirdFormat ==
    /\ pc = "done"
    /\ arg.t = "str"
    /\ ~Parses(arg.s, 1) /\ ~Parses(arg.s, 2) /\ Parses(arg.s, 3)
    /\ ret # arg
    /\ ret = StrV(<<"2", "0", "2", "4", "-", "0", "1", "-", "0", "5", "T", "0", "3", ":", "0", "4", ":", "0", "5", "+", "0", "5", ":", "3", "0">>)

(***************************************************************************)
(* The table of posts.                                                     *)
(***************************************************************************)
\* The columns DO UPDATE SET names.
UpdatedColumns == {"likes", "comments", "scraped_at"}

\* The batch of the last call holds a post with the key of the stored row.
Conflicts(stored) ==
    \E j \in 1..Len(posts) :
        /\ {"post_id", "platform"} \subseteq DOMAIN posts[j]
        /\ SameKey(stored, posts[j])

\* C13: a post whose (post_id, platform) is already stored changes only the
\* likes, comments and scraped_at of the stored row, every other column of
\* every stored row stays as it was; a single accepted post leaves its own
\* likes, comments and scraped_at in the row.
C13_UpsertUpdatesOnlyCounters ==
    /\ Len(rows0) <= Len(rows)
    /\ \A i \in 1..Len(rows0) :
          /\ \A k \in DOMAIN rows0[i] \ UpdatedColumns : rows[i][k] = rows0[i][k]
          /\ ~Conflicts(rows0[i]) => rows[i] = rows0[i]
          /\ (fn = "insert_posts" /\ Len(posts) = 1 /\ ret = 1 /\ Conflicts(rows0[i]))
                => \A k \in UpdatedColumns : rows[i][k] = Params(posts[1], now - 1).row[k]

\* C13: a stored row got the likes of a post with its key and kept its text,
\* although the post carries another text.
C13_ExistingRowUpdated ==
    \E i \in 1..Len(rows0) :
        /\ rows[i].likes # rows0[i].likes
        /\ rows[i].scraped_at # rows0[i].scraped_at
        /\ \E j \in 1..Len(posts) :
              /\ {"post_id", "platform", "post_text", "author"} \subseteq DOMAIN posts[j]
              /\ SameKey(rows0[i], posts[j])
              /\ posts[j].post_text # rows[i].post_text
              /\ posts[j].author # rows[i].author

\* The keys of the table, in the order of the rows.
Keys(table) == [i \in 1..Len(table) |-> <<table[i].post_id, table[i].platform>>]

\* C14: no two rows share a (post_id, platform); a call only adds keys after
\* the stored ones; loading a batch again leaves the keys and the number of
\* rows as they were.
C14_OneRowPerKey ==
    /\ \A i, j \in 1..Len(rows) : SameKey(rows[i], rows[j]) => i = j
    /\ Len(rows0) <= Len(rows)
    /\ SubSeq(Keys(rows), 1, Len(rows0)) = Keys(rows0)
    /\ fn = "reload" => Keys(rows) = Keys(rows0)

\* C14: a batch that holds the same key twice was loaded a second time and
\* the table still has the one row of that key.
C14_BatchReloaded ==
    /\ fn = "reload"
    /\ Len(posts) >= 2
    /\ \E i, j \in 1..Len(posts) :
          /\ i # j
          /\ {"post_id", "platform"} \subseteq DOMAIN posts[i]
          /\ {"post_id", "platform"} \subseteq DOMAIN posts[j]
          /\ SameKey(posts[i], posts[j])
          /\ Cardinality({r \in 1..Len(rows) : SameKey(rows[r], posts[i])}) = 1
    /\ Len(rows) = Len(rows0)
    /\ rows # <<>>

\* C15: load_with_validation reports a post under success only if its row
\* is in the table afterwards; a post whose insert failed is under errors
\* (stated for a store that accepts a row without an id).
C15_RejectedInsertReported ==
    (fn = "load_with_validation" /\ assigns_id) =>
        \A k \in 1..Len(ret.success) :
            \E i \in 1..Len(rows) : rows[i].post_id.s = ret.success[k]

(***************************************************************************)
(* The pipeline.                                                           *)
(***************************************************************************)
\* The records without the clock reading transform stamps on them.
Unstamped(records) == [i \in 1..Len(records) |-> [records[i] EXCEPT !.processed_at = 0]]

\* C16: when run_streaming has run to its end on a finite source, it has
\* taken every record of the source, has handed them to transform once
\* each and in order, has yielded what one transform of the whole source
\* emits (the clock stamp apart), in that order, and has handed the loader
\* the very records it yielded.
C16_StreamingYieldsTheTransform ==
    (fn = "run_streaming" /\ gen = "done") =>
        /\ taken = Len(source)
        /\ fed = source
        /\ Unstamped(yielded) = Unstamped(transform(source, NewStats, 0).transformed)
        /\ to_loader = yielded

\* C16: a run ended whose source filled a batch and left a smaller one, and
\* every record of the source was yielded.
C16_PartialFinalBatchYielded ==
    /\ fn = "run_streaming"
    /\ gen = "done"
    /\ Len(source) > batch_size
    /\ Len(source) % batch_size # 0
    /\ Len(yielded) = Len(source)

\* C17: when a streaming run stops before its end, because the consumer
\* stopped or because the source raised, every record taken from the source
\* has been handed to transform and load.
C17_NoPartialBatchDropped ==
    (fn = "run_streaming" /\ gen \in {"closed", "failed"}) =>
        fed = SubSeq(source, 1, taken)

\* C18: the list batch never holds more than batch_size records; while
\* records are being taken it holds the records taken and not yet processed,
\* fewer than batch_size; and the record taken next after a batch was
\* processed finds the list empty.
C18_BufferBounded ==
    /\ [](Len(buffer) <= batch_size)
    /\ [](gen = "take" =>
            /\ Len(buffer) < batch_size
            /\ buffer = SubSeq(source, Len(fed) + 1, taken))
    /\ [][(taken' = taken + 1 /\ Len(fed) = taken) => Len(buffer') <= 1]_vars

\* C18: a batch was processed and the next record is alone in the list.
C18_BufferRefilled ==
    /\ gen = "take"
    /\ fed # <<>>
    /\ Len(fed) >= batch_size
    /\ batch_size > 1
    /\ Len(buffer) = 1

\* C19: run returns the summary: input_count is the number of records
\* given, transformed_count the number transform emitted, loaded_count what
\* the loader returned, with the statistics of both, and
\* loaded_count <= transformed_count <= input_count.
C19_RunReturnsSummary ==
    fn = "run" =>
        /\ ~raised
        /\ ret.input_count = Len(posts)
        /\ ret.transformed_count = Len(transformed)
        /\ ret.loaded_count = load(transformed, rows0, loader_stats, assigns_id, now - 1).loaded
        /\ ret.transform_stats = stats
        /\ ret.loader_stats = loader_stats
        /\ ret.loaded_count <= ret.transformed_count
        /\ ret.transformed_count <= ret.input_count

\* C19: a run in which transform dropped a record for an exception and the
\* store rejected an emitted one.
C19_MalformedRecordsCounted ==
    /\ fn = "run"
    /\ ret.transform_stats.errors >= 1
    /\ 1 <= ret.loaded_count
    /\ ret.loaded_count < ret.transformed_count
    /\ ret.transformed_count < ret.input_count

(***************************************************************************)
(* The timestamp of the emitted records.                                   *)
(***************************************************************************)
\* C21: the timestamp of every record transform emits is None or a str that
\* reads as an ISO-8601 date and time, and it is None when the raw record
\* has a timestamp that no format parses.
C21_TimestampIsoOrNull ==
    (fn = "none" /\ ~raised) =>
        \A i \in 1..Len(transformed) :
            \/ transformed[i].timestamp.t = "none"
            \/ /\ transformed[i].timestamp.t = "str"
               /\ fromisoformat(transformed[i].timestamp.s).ok

(***************************************************************************)
(* Hashtag normalisation.                                                  *)
(***************************************************************************)
\* The entries of a comma-separated list.
Entries(s) == IF s = <<>> THEN <<>> ELSE SplitOn(s, ",", 1, <<>>)

\* The entries of the input that are longer than one character once
\* trimmed, in the order of the input.
KeptEntries(s) == SelectSeq(Entries(s), LAMBDA e : Len(str_strip(e)) > 1)

\* C22: the output lists, in the order of the input and with repetitions,
\* the trimmed and lower-cased entries of the input that are longer than one
\* character; normalising the output again returns it unchanged.
C22_HashtagsNormalized ==
    (fn = "_normalize_hashtags" /\ pc = "done") =>
        /\ Entries(ret[1]) =
              [i \in 1..Len(KeptEntries(arg)) |-> str_lower(str_strip(KeptEntries(arg)[i]))]
        /\ \A i \in 1..Len(Entries(ret[1])) :
              /\ Len(Entries(ret[1])[i]) > 1
              /\ str_strip(Entries(ret[1])[i]) = Entries(ret[1])[i]
              /\ str_lower(Entries(ret[1])[i]) = Entries(ret[1])[i]
        /\ Len(ret) = 2 => ret[2] = ret[1]

\* C22: an input was normalised twice whose output repeats a tag and
\* differs from the input.
C22_RepeatedTagKept ==
    /\ fn = "_normalize_hashtags"
    /\ Len(ret) = 2
    /\ Len(Entries(ret[1])) = 2
    /\ Entries(ret[1])[1] = Entries(ret[1])[2]
    /\ ret[1] # arg

(***************************************************************************)
(* The statistics of the Loader.                                           *)
(***************************************************************************)
\* C23: each call of load_with_validation adds to Loader.stats the numbers
\* of records it stored, found already present and rejected, and each call
\* of load adds the number it stored.
C23_LoaderStatsCount ==
    [][/\ fn' = "load_with_validation" =>
            /\ loader_stats'.loaded = loader_stats.loaded + (Len(rows') - Len(rows))
            /\ loader_stats'.duplicates = loader_stats.duplicates + Len(ret'.duplicates)
            /\ loader_stats'.errors = loader_stats.errors + Len(ret'.errors)
       /\ fn' \in {"load", "reload"} =>
            loader_stats'.loaded = loader_stats.loaded + ret']_vars

(***************************************************************************)
(* The two engagement classifiers.                                         *)
(***************************************************************************)
\* C24: DataLabeler.estimate_engagement_level returns the tier that
\* Transformer._calculate_engagement returns for the same likes, comments
\* and platform.
C24_OneEngagementClassifier ==
    (fn = "estimate_engagement_level" /\ pc = "done") =>
        ret = _calculate_engagement(arg.likes, arg.comments, arg.platform)

(***************************************************************************)
(* One field that cannot be derived.                                       *)
(***************************************************************************)
\* C25: a raw record with a non-empty post_id is emitted whatever the
\* values of its other fields: transform emits as many records as the batch
\* has records with a post_id.
C25_FieldFailureKeepsRecord ==
    (fn = "none" /\ ~raised) =>
        Len(transformed) = Len(SelectSeq(posts, HasPostId))

(***************************************************************************)
(* Two transforms of the same records.                                     *)
(***************************************************************************)
\* The records a new Transformer emits for the batch ps at clock time t.
Fresh(ps, t) == transform(ps, NewStats, t).transformed

\* C26, as stated: a new Transformer emits for the same batch, at whatever
\* time, records equal in every field to those the first one emitted.
C26_EqualInEveryField ==
    (fn = "none" /\ now = 1 /\ ~raised) =>
        \A t \in 0..MaxCalls : Fresh(posts, t) = transformed

\* The records fresh, emitted at clock time t, are those of the first call
\* in every field but processed_at, which is t.
SameButProcessedAt(fresh, t) ==
    /\ Unstamped(fresh) = Unstamped(transformed)
    /\ \A i \in 1..Len(fresh) : fresh[i].processed_at = t

\* C26, amended: the records are equal in every field but processed_at,
\* and processed_at is the time of the call.
C26_EqualButProcessedAt ==
    (fn = "none" /\ now = 1 /\ ~raised) =>
        \A t \in 0..MaxCalls : SameButProcessedAt(Fresh(posts, t), t)

\* C26: a first call on a new Transformer emitted two records, one of them
\* without a timestamp.
C26_TwoRecordsEmitted ==
    /\ fn = "none"
    /\ now = 1
    /\ Len(transformed) >= 2
    /\ \E i \in 1..Len(transformed) : transformed[i].timestamp.t = "none"

(***************************************************************************)
(* prepare_for_sentiment and residual markup.                              *)
(***************************************************************************)
\* s holds a match of the URL, the hashtag or the mention pattern.
HasMarkup(s) ==
    \/ CountUrls(s, 1) > 0
    \/ \E i \in 1..Len(s) : HashtagAt(s, i)
    \/ CountMentions(s, 1) > 0

\* C27: the cleaned_text returned by prepare_for_sentiment holds no match of
\* the URL, hashtag or mention pattern, and the returned hashtags, mentions,
\* has_urls and emoji_count are those of the original text.
C27_NoResidualMarkup ==
    (fn = "prepare_for_sentiment" /\ pc = "done") =>
        /\ ~HasMarkup(ret.cleaned_text)
        /\ ret.hashtags = extract_hashtags(arg.text)
        /\ ret.mentions = extract_mentions(arg.text)
        /\ ret.has_urls = (CountUrls(arg.text, 1) > 0)
        /\ ret.emoji_count = Len(FindEmojis(arg.text, 1))

(***************************************************************************)
(* The retry decorators.                                                   *)
(***************************************************************************)
\* The wrapper of retry or async_retry is running or has finished.
Retrying == fn \in {"retry", "async_retry"} /\ pc # "call"

\* Call i of the wrapped function raised an exception that is caught.
FailedCaught(i) == ret.calls[i].exc # "none" /\ Caught(ret.calls[i].exc, arg.exceptions)

\* C28: the wrapped function is called at most max_attempts times, and never
\* again after a call that returned or raised an exception outside
\* exceptions; the wrapper returns the value of the call that returned, lets
\* an exception outside exceptions propagate, and raises the last caught
\* exception once max_attempts calls have raised a caught one; sleep k + 1,
\* of base_delay * 2^k, comes after call k + 1 and before call k + 2, and
\* none follows the final call. (With max_attempts = 0 nothing is called and
\* nothing is caught; the wrapper then raises a TypeError.)
C28_RetryBounded ==
    Retrying =>
        /\ Len(ret.calls) <= arg.max_attempts
        /\ \A i \in 1..(Len(ret.calls) - 1) : FailedCaught(i)
        /\ Len(ret.sleeps) <= Len(ret.calls)
        /\ Len(ret.calls) <= Len(ret.sleeps) + 1
        /\ \A k \in 1..Len(ret.sleeps) : ret.sleeps[k] = arg.base_delay * (2 ^ (k - 1))
        /\ (pc = "try") => Len(ret.sleeps) = Len(ret.calls)
        /\ (pc = "done" /\ ret.calls # <<>>) =>
              /\ Len(ret.sleeps) = Len(ret.calls) - 1
              /\ ret.outcome = ret.calls[Len(ret.calls)]
              /\ FailedCaught(Len(ret.calls)) => Len(ret.calls) = arg.max_attempts

\* C28: three calls raised a caught exception, the first and the last of
\* different classes; the wrapper slept twice and raised the last one.
C28_AllAttemptsFailed ==
    /\ Retrying
    /\ pc = "done"
    /\ arg.max_attempts = 3
    /\ arg.base_delay = 2
    /\ Len(ret.calls) = 3
    /\ \A i \in 1..3 : FailedCaught(i)
    /\ ret.calls[1].exc # ret.calls[3].exc
    /\ ret.outcome = Raise(ret.calls[3].exc)
    /\ ret.sleeps = <<2, 4>>

(***************************************************************************)
(* The sentiment tally and the number of emitted records.                  *)
(***************************************************************************)
\* C29: after any sequence of transform calls on one Transformer the
\* sentiment tally adds up to stats.processed: only emitted records are
\* tallied, each once.
C29_TallyMatchesProcessed ==
    (fn = "none" /\ ~raised) =>
        stats.sentiment.positive + stats.sentiment.negative + stats.sentiment.neutral
            = stats.processed

(***************************************************************************)
(* The input of transform after the call.                                  *)
(***************************************************************************)
\* C30: transform leaves its input unchanged: after the call the list and
\* every raw record of it have the keys and values they had before, whether
\* the record was emitted, rejected or dropped on an exception, and no
\* emitted record is a record of the input.
C30_InputUnchanged ==
    (fn = "none" /\ now > 0) =>
        /\ arg = posts
        /\ \A i \in 1..Len(transformed) : \A j \in 1..Len(arg) : transformed[i] # arg[j]

\* C30: one call was given a record it emitted, a record it rejected and a
\* record it dropped on an exception.
C30_EmittedRejectedDropped ==
    /\ fn = "none"
    /\ now > 0
    /\ ~raised
    /\ Len(posts) = 3
    /\ Len(transformed) = 1
    /\ stats.errors = stats0.errors + 1
    /\ \E j \in 1..3 : ~HasPostId(posts[j])
====
